---- MODULE Spec2Model ----
(***************************************************************************)
(* Event-driven order system: the order service's create/read/list path   *)
(* with its cache-aside Order Cache, the MySQL Order Store and the         *)
(* detached publish step towards the RabbitMQ exchange; the queues of the  *)
(* analytics service and the notification worker, their consumer loops,    *)
(* the order_metrics table and the summary cache.                          *)
(*                                                                         *)
(* Specifications: Spec (order service), SpecList (listing), SpecHealth    *)
(* (health endpoint), SpecPublisher (publish path, with fairness),         *)
(* SpecSystem (event flow), SpecAnalytics (analytics service with its      *)
(* summary API), SpecRedelivery (answers lost with the connection),        *)
(* SpecShutdown (shutdown signal, exit and stop).                          *)
(*                                                                         *)
(* Strings are Go strings, "" is the empty string.  Times are counted in   *)
(* clock ticks (TicksPerSecond ticks make one second), amounts in mills    *)
(* (MillsPerCent mills make one cent), so that the precision the store     *)
(* keeps (whole seconds, whole cents) differs from the precision of        *)
(* time.Now() and of a float64 amount.                                     *)
(***************************************************************************)
EXTENDS Integers, Sequences, FiniteSets, TLC

VARIABLES
    store,      \* orders table: id -> row (MySQL, PRIMARY KEY id)
    cache,      \* Redis: order id -> JSON value stored under "order:" + id
    clock,      \* wall clock read by time.Now(), in ticks
    pending,    \* detached publish goroutines started and not yet run: the orders they captured
    published,  \* message bodies handed to the "orders" exchange, in publish order
    connOpen,   \* the publisher's AMQP connection/channel is open
    created,    \* history: the orders returned by successful CreateOrder calls
    newest,     \* history: the id of the order the latest successful CreateOrder returned
    last,       \* the API call whose response has not been read yet: inputs, calls made, result
    queues,     \* RabbitMQ: declared queue name -> messages ready for delivery, head first
    consumers,  \* the two consumer processes: running or not, and the delivery in hand
    metrics,    \* order_metrics table (analytics MySQL), rows in insertion order
    summaryCache, \* analytics Redis: the value under "analytics:summary", if any
    notified,   \* notifications the notification worker has sent (logged), in order
    lastSummary \* the GET /analytics/summary call in progress or answered last

vars == <<store, cache, clock, pending, published, connOpen, created, newest, last,
          queues, consumers, metrics, summaryCache, notified, lastSummary>>

\* what the analytics service and the notification worker own
eventVars == <<consumers, metrics, summaryCache, notified, lastSummary>>

-----------------------------------------------------------------------------
(* Bounds of the model *)

NumUUIDs == 2      \* size of the pool uuid.New() draws from
MaxClock == 1      \* the clock stops ticking at MaxClock
MaxRows == 3       \* order_metrics and the notification log take at most MaxRows entries

(* Units *)

TicksPerSecond == 2   \* time.Now() resolves fractions of a second; TIMESTAMP holds whole seconds
MillsPerCent == 10    \* a float64 amount carries more than the 2 decimals of DECIMAL(10, 2)

-----------------------------------------------------------------------------
(* Values *)

Nil == "nil"                      \* Go's nil error

OrderStatusPending == "pending"

UUIDString(k) == "u" \o ToString(k)        \* uuid.New().String(): never empty

UUIDs == {UUIDString(k) : k \in 1..NumUUIDs}

\* CreateOrderRequest values: the valid request (99.99) and the ones with one offending field
Requests ==
    { [CustomerID |-> "customer-123", ProductID |-> "product-456", Quantity |-> 2, TotalAmount |-> 99990],
      [CustomerID |-> "",             ProductID |-> "product-456", Quantity |-> 2, TotalAmount |-> 99990],
      [CustomerID |-> "customer-123", ProductID |-> "",            Quantity |-> 2, TotalAmount |-> 99990],
      [CustomerID |-> "customer-123", ProductID |-> "product-456", Quantity |-> 0, TotalAmount |-> 99990],
      [CustomerID |-> "customer-123", ProductID |-> "product-456", Quantity |-> -1, TotalAmount |-> 99990],
      [CustomerID |-> "customer-123", ProductID |-> "product-456", Quantity |-> 2, TotalAmount |-> 0],
      [CustomerID |-> "customer-123", ProductID |-> "product-456", Quantity |-> 2, TotalAmount |-> -10] }

NoRequest == [CustomerID |-> "", ProductID |-> "", Quantity |-> 0, TotalAmount |-> 0]

\* ids a GetOrder request can name: every uuid of the pool
LookupIDs == UUIDs

-----------------------------------------------------------------------------
(* Conversions *)

\* MySQL rounds a datetime with a fractional part to the column's precision (whole seconds)
RoundToSeconds(t) == ((2 * t + TicksPerSecond) \div (2 * TicksPerSecond)) * TicksPerSecond

\* MySQL rounds a number to the column's scale (2 decimals)
RoundToCents(a) == ((2 * a + MillsPerCent) \div (2 * MillsPerCent)) * MillsPerCent

\* the row an INSERT of the order leaves in the orders table
OrderRow(order) ==
    [id |-> order.ID, customer_id |-> order.CustomerID, product_id |-> order.ProductID,
     quantity |-> order.Quantity, total_amount |-> RoundToCents(order.TotalAmount),
     status |-> order.Status, created_at |-> RoundToSeconds(order.CreatedAt),
     updated_at |-> RoundToSeconds(order.UpdatedAt)]

\* rows.Scan / QueryRow.Scan into a model.Order
ScanOrder(row) ==
    [ID |-> row.id, CustomerID |-> row.customer_id, ProductID |-> row.product_id,
     Quantity |-> row.quantity, TotalAmount |-> row.total_amount, Status |-> row.status,
     CreatedAt |-> row.created_at, UpdatedAt |-> row.updated_at]

\* json.Marshal(order): the struct's json tags; RFC 3339 with nanoseconds keeps the instant
MarshalOrder(order) ==
    [id |-> order.ID, customer_id |-> order.CustomerID, product_id |-> order.ProductID,
     quantity |-> order.Quantity, total_amount |-> order.TotalAmount, status |-> order.Status,
     created_at |-> order.CreatedAt, updated_at |-> order.UpdatedAt]

\* json.Unmarshal(data, &order)
UnmarshalOrder(data) ==
    [ID |-> data.id, CustomerID |-> data.customer_id, ProductID |-> data.product_id,
     Quantity |-> data.quantity, TotalAmount |-> data.total_amount, Status |-> data.status,
     CreatedAt |-> data.created_at, UpdatedAt |-> data.updated_at]

\* json.Marshal(event)
MarshalEvent(event) ==
    [order_id |-> event.OrderID, customer_id |-> event.CustomerID, product_id |-> event.ProductID,
     quantity |-> event.Quantity, total_amount |-> event.TotalAmount, status |-> event.Status,
     created_at |-> event.CreatedAt, event_type |-> event.EventType]


-----------------------------------------------------------------------------
(* Order Store: MySQLOrderRepository over the orders table *)

\* mutant: the table has no primary key, an INSERT with a used id goes through
RepoCreateNoPrimaryKey(st, order, dbFail) ==
    IF dbFail THEN [err |-> "failed to create order: db error", out |-> "error", store |-> st]
    ELSE [err |-> Nil, out |-> "ok", store |-> (order.ID :> OrderRow(order)) @@ st]

\* Create: INSERT INTO orders; the PRIMARY KEY rejects an id that is already there
RepoCreate(st, order, dbFail) ==
    IF dbFail THEN [err |-> "failed to create order: db error", out |-> "error", store |-> st]
    ELSE IF order.ID \in DOMAIN st
    THEN [err |-> "failed to create order: duplicate entry", out |-> "duplicate", store |-> st]
    ELSE [err |-> Nil, out |-> "ok", store |-> (order.ID :> OrderRow(order)) @@ st]

\* mutant: sql.ErrNoRows is not told apart, the zero-valued order is returned without error
RepoGetByIDEmptyOnNoRows(st, id, dbFail) ==
    IF dbFail THEN [err |-> "failed to get order: db error", out |-> "error", order |-> <<>>]
    ELSE IF id \notin DOMAIN st
    THEN [err |-> Nil, out |-> "ok",
          order |-> <<[ID |-> "", CustomerID |-> "", ProductID |-> "", Quantity |-> 0,
                       TotalAmount |-> 0, Status |-> "", CreatedAt |-> 0, UpdatedAt |-> 0]>>]
    ELSE [err |-> Nil, out |-> "ok", order |-> <<ScanOrder(st[id])>>]

\* GetByID: SELECT ... WHERE id = ?; sql.ErrNoRows becomes "order not found"
RepoGetByID(st, id, dbFail) ==
    IF dbFail THEN [err |-> "failed to get order: db error", out |-> "error", order |-> <<>>]
    ELSE IF id \notin DOMAIN st
    THEN [err |-> "order not found", out |-> "notfound", order |-> <<>>]
    ELSE [err |-> Nil, out |-> "ok", order |-> <<ScanOrder(st[id])>>]

\* ORDER BY created_at DESC names no second sort key: rows with equal created_at come back
\* in whatever order the server picks.  These are the row orders it may pick.
RowOrders(st) ==
    LET n == Cardinality(DOMAIN st)
    IN  {p \in [1..n -> DOMAIN st] :
            \A i, j \in 1..n : i < j => /\ p[i] # p[j]
                                        /\ st[p[i]].created_at >= st[p[j]].created_at}

\* List: SELECT ... ORDER BY created_at DESC LIMIT limit OFFSET offset, every row scanned.
\* perm is the row order the server picked; MySQL rejects a negative LIMIT or OFFSET.
RepoList(st, limit, offset, dbFail, perm) ==
    IF dbFail \/ limit < 0 \/ offset < 0
    THEN [err |-> "failed to list orders: db error", out |-> "error", orders |-> <<>>]
    ELSE LET upto == IF offset + limit < Len(perm) THEN offset + limit ELSE Len(perm)
             n    == IF upto > offset THEN upto - offset ELSE 0
         IN  [err |-> Nil, out |-> "ok",
              orders |-> [i \in 1..n |-> ScanOrder(st[perm[offset + i]])]]

-----------------------------------------------------------------------------
(* Order Cache: RedisOrderCache *)

OrderKey(id) == "order:" \o id           \* orderKeyPrefix + id

\* Get: redis.Nil is a miss, any other error a transport failure
CacheGet(c, id, cacheFail) ==
    IF cacheFail THEN [err |-> "failed to get order from cache", out |-> "error", order |-> <<>>]
    ELSE IF OrderKey(id) \notin DOMAIN c
    THEN [err |-> "order not found in cache", out |-> "miss", order |-> <<>>]
    ELSE [err |-> Nil, out |-> "hit", order |-> <<UnmarshalOrder(c[OrderKey(id)])>>]

\* mutant: the value is stored under the bare id, without the key prefix Get looks up
CacheSetBareKey(c, order, cacheFail) ==
    IF cacheFail THEN [err |-> "failed to set order in cache", out |-> "error", cache |-> c]
    ELSE [err |-> Nil, out |-> "ok", cache |-> (order.ID :> MarshalOrder(order)) @@ c]

\* Set: SET key json EX orderTTL
CacheSet(c, order, cacheFail) ==
    IF cacheFail THEN [err |-> "failed to set order in cache", out |-> "error", cache |-> c]
    ELSE [err |-> Nil, out |-> "ok", cache |-> (OrderKey(order.ID) :> MarshalOrder(order)) @@ c]

-----------------------------------------------------------------------------
(* Event Channel publish path: RabbitMQPublisher *)

\* the event the detached goroutine builds from the order it captured
EventOf(order) ==
    [OrderID |-> order.ID, CustomerID |-> order.CustomerID, ProductID |-> order.ProductID,
     Quantity |-> order.Quantity, TotalAmount |-> order.TotalAmount, Status |-> order.Status,
     CreatedAt |-> order.CreatedAt, EventType |-> ""]

\* PublishOrderCreated: stamp the event type, marshal, publish on the channel
PublishOrderCreated(msgs, event, open) ==
    LET body == MarshalEvent([event EXCEPT !.EventType = "OrderCreated"])
    IN  IF open THEN [err |-> Nil, out |-> "ok", published |-> Append(msgs, body)]
        ELSE [err |-> "failed to publish event", out |-> "error", published |-> msgs]

-----------------------------------------------------------------------------
(* Order Pipeline: OrderService *)

Call(name, out) == [call |-> name, out |-> out]

\* mutant: the quantity and amount checks reject only negative values
ValidateRequestZeroAllowed(req) ==
    IF req.CustomerID = "" \/ req.ProductID = "" THEN "customer_id and product_id are required"
    ELSE IF req.Quantity < 0 THEN "quantity must be greater than 0"
    ELSE IF req.TotalAmount < 0 THEN "total_amount must be greater than 0"
    ELSE Nil

ValidateRequest(req) ==
    IF req.CustomerID = "" \/ req.ProductID = "" THEN "customer_id and product_id are required"
    ELSE IF req.Quantity <= 0 THEN "quantity must be greater than 0"
    ELSE IF req.TotalAmount <= 0 THEN "total_amount must be greater than 0"
    ELSE Nil

\* the order entity: a fresh uuid, status pending, two readings of time.Now()
NewOrder(req, id, now1, now2) ==
    [ID |-> id, CustomerID |-> req.CustomerID, ProductID |-> req.ProductID,
     Quantity |-> req.Quantity, TotalAmount |-> req.TotalAmount,
     Status |-> OrderStatusPending, CreatedAt |-> now1, UpdatedAt |-> now2]

\* mutant: the store error is logged instead of returned, the call goes on
ServiceCreateOrderIgnoresStoreError(st, c, req, id, now1, now2, dbFail, cacheFail) ==
    LET verr == ValidateRequest(req)
        order == NewOrder(req, id, now1, now2)
        cr == RepoCreate(st, order, dbFail)
        cs == CacheSet(c, order, cacheFail)
    IN  IF verr # Nil
        THEN [err |-> verr, order |-> <<>>, store |-> st, cache |-> c, spawned |-> {},
              calls |-> <<>>]
        ELSE [err |-> Nil, order |-> <<order>>, store |-> cr.store, cache |-> cs.cache,
              spawned |-> {order},
              calls |-> <<Call("time.Now", "ok"), Call("time.Now", "ok"),
                          Call("repo.Create", cr.out), Call("cache.Set", cs.out),
                          Call("go publish", "started")>>]

\* mutant: a cache-write error is returned to the caller and nothing is published
ServiceCreateOrderCacheFatal(st, c, req, id, now1, now2, dbFail, cacheFail) ==
    LET verr == ValidateRequest(req)
        order == NewOrder(req, id, now1, now2)
        cr == RepoCreate(st, order, dbFail)
        cs == CacheSet(c, order, cacheFail)
    IN  IF verr # Nil
        THEN [err |-> verr, order |-> <<>>, store |-> st, cache |-> c, spawned |-> {},
              calls |-> <<>>]
        ELSE IF cr.err # Nil
        THEN [err |-> "failed to create order: " \o cr.err, order |-> <<>>, store |-> st,
              cache |-> c, spawned |-> {},
              calls |-> <<Call("time.Now", "ok"), Call("time.Now", "ok"),
                          Call("repo.Create", cr.out)>>]
        ELSE IF cs.err # Nil
        THEN [err |-> "failed to cache order: " \o cs.err, order |-> <<>>, store |-> cr.store,
              cache |-> c, spawned |-> {},
              calls |-> <<Call("time.Now", "ok"), Call("time.Now", "ok"),
                          Call("repo.Create", cr.out), Call("cache.Set", cs.out)>>]
        ELSE [err |-> Nil, order |-> <<order>>, store |-> cr.store, cache |-> cs.cache,
              spawned |-> {order},
              calls |-> <<Call("time.Now", "ok"), Call("time.Now", "ok"),
                          Call("repo.Create", cr.out), Call("cache.Set", cs.out),
                          Call("go publish", "started")>>]

\* mutant: the publish runs inside the request and its failure is returned to the caller
ServiceCreateOrderPublishInline(st, c, req, id, now1, now2, dbFail, cacheFail) ==
    LET verr == ValidateRequest(req)
        order == NewOrder(req, id, now1, now2)
        cr == RepoCreate(st, order, dbFail)
        cs == CacheSet(c, order, cacheFail)
        pr == PublishOrderCreated(published, EventOf(order), connOpen)
    IN  IF verr # Nil
        THEN [err |-> verr, order |-> <<>>, store |-> st, cache |-> c, spawned |-> {},
              calls |-> <<>>]
        ELSE IF cr.err # Nil
        THEN [err |-> "failed to create order: " \o cr.err, order |-> <<>>, store |-> st,
              cache |-> c, spawned |-> {},
              calls |-> <<Call("time.Now", "ok"), Call("time.Now", "ok"),
                          Call("repo.Create", cr.out)>>]
        ELSE IF pr.err # Nil
        THEN [err |-> "failed to publish order: " \o pr.err, order |-> <<>>, store |-> cr.store,
              cache |-> cs.cache, spawned |-> {},
              calls |-> <<Call("time.Now", "ok"), Call("time.Now", "ok"),
                          Call("repo.Create", cr.out), Call("cache.Set", cs.out),
                          Call("channel.Publish", pr.out)>>]
        ELSE [err |-> Nil, order |-> <<order>>, store |-> cr.store, cache |-> cs.cache,
              spawned |-> {order},
              calls |-> <<Call("time.Now", "ok"), Call("time.Now", "ok"),
                          Call("repo.Create", cr.out), Call("cache.Set", cs.out),
                          Call("go publish", "started")>>]

\* OrderService.CreateOrder: validate, persist, cache best-effort, start the publish goroutine
ServiceCreateOrder(st, c, req, id, now1, now2, dbFail, cacheFail) ==
    LET verr == ValidateRequest(req)
        order == NewOrder(req, id, now1, now2)
        cr == RepoCreate(st, order, dbFail)
        cs == CacheSet(c, order, cacheFail)
    IN  IF verr # Nil
        THEN [err |-> verr, order |-> <<>>, store |-> st, cache |-> c, spawned |-> {},
              calls |-> <<>>]
        ELSE IF cr.err # Nil
        THEN [err |-> "failed to create order: " \o cr.err, order |-> <<>>, store |-> st,
              cache |-> c, spawned |-> {},
              calls |-> <<Call("time.Now", "ok"), Call("time.Now", "ok"),
                          Call("repo.Create", cr.out)>>]
        ELSE [err |-> Nil, order |-> <<order>>, store |-> cr.store, cache |-> cs.cache,
              spawned |-> {order},
              calls |-> <<Call("time.Now", "ok"), Call("time.Now", "ok"),
                          Call("repo.Create", cr.out), Call("cache.Set", cs.out),
                          Call("go publish", "started")>>]

\* mutant: a cache hit is refreshed from the store before it is returned
ServiceGetOrderByIDRefreshesHit(st, c, id, getFail, dbFail, setFail) ==
    LET cg == CacheGet(c, id, getFail)
        rg == RepoGetByID(st, id, dbFail)
        cs == CacheSet(c, rg.order[1], setFail)
    IN  IF rg.err # Nil
        THEN IF cg.err = Nil
             THEN [err |-> Nil, order |-> cg.order, cache |-> c,
                   calls |-> <<Call("cache.Get", cg.out), Call("repo.GetByID", rg.out)>>]
             ELSE [err |-> "failed to get order: " \o rg.err, order |-> <<>>, cache |-> c,
                   calls |-> <<Call("cache.Get", cg.out), Call("repo.GetByID", rg.out)>>]
        ELSE [err |-> Nil, order |-> rg.order, cache |-> cs.cache,
              calls |-> <<Call("cache.Get", cg.out), Call("repo.GetByID", rg.out),
                          Call("cache.Set", cs.out)>>]

\* mutant: only a miss sends the call to the store; a cache that cannot be reached fails it
ServiceGetOrderByIDCacheFatal(st, c, id, getFail, dbFail, setFail) ==
    LET cg == CacheGet(c, id, getFail)
        rg == RepoGetByID(st, id, dbFail)
        cs == CacheSet(c, rg.order[1], setFail)
    IN  IF cg.err = Nil
        THEN [err |-> Nil, order |-> cg.order, cache |-> c,
              calls |-> <<Call("cache.Get", cg.out)>>]
        ELSE IF cg.out = "error"
        THEN [err |-> "failed to get order: " \o cg.err, order |-> <<>>, cache |-> c,
              calls |-> <<Call("cache.Get", cg.out)>>]
        ELSE IF rg.err # Nil
        THEN [err |-> "failed to get order: " \o rg.err, order |-> <<>>, cache |-> c,
              calls |-> <<Call("cache.Get", cg.out), Call("repo.GetByID", rg.out)>>]
        ELSE [err |-> Nil, order |-> rg.order, cache |-> cs.cache,
              calls |-> <<Call("cache.Get", cg.out), Call("repo.GetByID", rg.out),
                          Call("cache.Set", cs.out)>>]

\* OrderService.GetOrderByID: cache first, then the store, then fill the cache best-effort
ServiceGetOrderByID(st, c, id, getFail, dbFail, setFail) ==
    LET cg == CacheGet(c, id, getFail)
        rg == RepoGetByID(st, id, dbFail)
        cs == CacheSet(c, rg.order[1], setFail)
    IN  IF cg.err = Nil
        THEN [err |-> Nil, order |-> cg.order, cache |-> c,
              calls |-> <<Call("cache.Get", cg.out)>>]
        ELSE IF rg.err # Nil
        THEN [err |-> "failed to get order: " \o rg.err, order |-> <<>>, cache |-> c,
              calls |-> <<Call("cache.Get", cg.out), Call("repo.GetByID", rg.out)>>]
        ELSE [err |-> Nil, order |-> rg.order, cache |-> cs.cache,
              calls |-> <<Call("cache.Get", cg.out), Call("repo.GetByID", rg.out),
                          Call("cache.Set", cs.out)>>]

\* the call record of repo.List: its outcome and the LIMIT and OFFSET it was given
CallList(out, limit, offset) ==
    [call |-> "repo.List", out |-> out, limit |-> limit, offset |-> offset]

\* mutant: the upper clamp of the limit is missing
ServiceListOrdersNoUpperClamp(st, limit, offset, dbFail, perm) ==
    LET l1  == IF limit <= 0 THEN 10 ELSE limit
        o1  == IF offset < 0 THEN 0 ELSE offset
        res == RepoList(st, l1, o1, dbFail, perm)
    IN  [err    |-> IF res.err # Nil THEN "failed to list orders: " \o res.err ELSE Nil,
         orders |-> res.orders,
         calls  |-> <<CallList(res.out, l1, o1)>>]

\* ListOrders: clamp limit and offset, then one repo.List call; no cache, no publisher
ServiceListOrders(st, limit, offset, dbFail, perm) ==
    LET l1  == IF limit <= 0 THEN 10 ELSE limit
        l2  == IF l1 > 100 THEN 100 ELSE l1
        o1  == IF offset < 0 THEN 0 ELSE offset
        res == RepoList(st, l2, o1, dbFail, perm)
    IN  [err    |-> IF res.err # Nil THEN "failed to list orders: " \o res.err ELSE Nil,
         orders |-> res.orders,
         calls  |-> <<CallList(res.out, l2, o1)>>]

-----------------------------------------------------------------------------
(* HTTP surface: OrderHandler *)

\* POST /orders: every service error is answered 500 with the error text
HandlerCreateOrder(res) ==
    IF res.err # Nil THEN [code |-> 500, error |-> res.err] ELSE [code |-> 201, error |-> ""]

\* GET /orders/{id}: every service error is answered 404 "Order not found"
HandlerGetOrder(id, res) ==
    IF id = "" THEN [code |-> 400, error |-> "Order ID is required"]
    ELSE IF res.err # Nil THEN [code |-> 404, error |-> "Order not found"]
    ELSE [code |-> 200, error |-> ""]

NoResponse == [code |-> 0, error |-> ""]

\* RabbitMQPublisher.HealthCheck: the connection set at start-up is never nil, so the
\* check fails exactly when the connection is closed
PublisherHealthCheck(open) == IF open THEN Nil ELSE "connection is closed"

\* what a check reports under its key
CheckText(err) == IF err = Nil THEN "healthy" ELSE "unhealthy: " \o err

\* mutant: the checks stop at the first failure, the later ones keep their preset "healthy"
HandlerHealthCheckStopsAtFailure(dbErr, cacheErr, mqErr) ==
    LET cacheSeen == IF dbErr # Nil THEN Nil ELSE cacheErr
        mqSeen    == IF dbErr # Nil \/ cacheErr # Nil THEN Nil ELSE mqErr
        healthy   == dbErr = Nil /\ cacheSeen = Nil /\ mqSeen = Nil
    IN  [code |-> IF healthy THEN 200 ELSE 503, error |-> "",
         status |-> IF healthy THEN "healthy" ELSE "degraded",
         checks |-> [database |-> CheckText(dbErr), cache |-> CheckText(cacheSeen),
                     mq |-> CheckText(mqSeen)],
         calls |-> <<Call("DBHealthFunc", IF dbErr = Nil THEN "ok" ELSE "error")>>
                   \o (IF dbErr # Nil THEN <<>>
                       ELSE <<Call("CacheHealthFunc", IF cacheErr = Nil THEN "ok" ELSE "error")>>)
                   \o (IF dbErr # Nil \/ cacheErr # Nil THEN <<>>
                       ELSE <<Call("MQHealthFunc", IF mqErr = Nil THEN "ok" ELSE "error")>>)]

\* GET /health of the order service with the health checker main installs: the three
\* checks run one after the other, each writes its own key, and any failure turns the
\* answer into 503 "degraded"
HandlerHealthCheck(dbErr, cacheErr, mqErr) ==
    LET healthy == dbErr = Nil /\ cacheErr = Nil /\ mqErr = Nil
    IN  [code |-> IF healthy THEN 200 ELSE 503, error |-> "",
         status |-> IF healthy THEN "healthy" ELSE "degraded",
         checks |-> [database |-> CheckText(dbErr), cache |-> CheckText(cacheErr),
                     mq |-> CheckText(mqErr)],
         calls |-> <<Call("DBHealthFunc", IF dbErr = Nil THEN "ok" ELSE "error"),
                     Call("CacheHealthFunc", IF cacheErr = Nil THEN "ok" ELSE "error"),
                     Call("MQHealthFunc", IF mqErr = Nil THEN "ok" ELSE "error")>>]

\* the errors a ping of the database or of the cache returns
PingErrors == {Nil, "context deadline exceeded"}

\* the values the limit and offset query parameters take; "" is an absent parameter
LimitValues == {"", "abc", "-1", "0", "1", "100", "101"}

OffsetValues == {"", "-1", "0", "1"}

\* the decimal strings of the numbers in use
Decimal == [n \in -1..101 |-> ToString(n)]

\* strconv.Atoi: the number a decimal string denotes; anything else is an error
Atoi(str) ==
    IF \E n \in DOMAIN Decimal : Decimal[n] = str
    THEN [err |-> Nil, n |-> CHOOSE n \in DOMAIN Decimal : Decimal[n] = str]
    ELSE [err |-> "invalid syntax", n |-> 0]

\* GET /orders: limit and offset default to 10 and 0; a parameter that is absent or is
\* not a number keeps its default
ListQuery(limitStr, offsetStr) ==
    LET l == Atoi(limitStr)
        o == Atoi(offsetStr)
    IN  [Limit  |-> IF limitStr # "" /\ l.err = Nil THEN l.n ELSE 10,
         Offset |-> IF offsetStr # "" /\ o.err = Nil THEN o.n ELSE 0]

HandlerListOrders(res) ==
    IF res.err # Nil THEN [code |-> 500, error |-> "Failed to list orders"]
    ELSE [code |-> 200, error |-> ""]

-----------------------------------------------------------------------------
(* Event Channel: the "orders" topic exchange and the consumers' queues *)

Consumers == {"analytics", "notification"}

\* mutant: both consumers name the same queue
QueueNameShared(c) == "analytics.orders"

\* queueName of the analytics service and of the notification worker
QueueName(c) == IF c = "analytics" THEN "analytics.orders" ELSE "notifications.orders"

\* Qos(1, 0, false): the broker keeps at most this many unacknowledged deliveries out
PrefetchCount == 1

\* a consumer process: running or not, whether the shutdown signal has reached it
\* (stopping) and found a handler running that has not returned since (inFlight, history),
\* the deliveries the broker has sent it and it has not answered (unacked,
\* oldest first), whether its handler is running on the oldest of them, and for the
\* delivery before: what the handler returned (if it was called) and the answer the loop
\* gave ("lost" when the connection was gone before the answer, "exit" once the process
\* has exited after the signal)
ConsumerOff ==
    [running |-> FALSE, stopping |-> FALSE, inFlight |-> FALSE, unacked |-> <<>>,
     handling |-> FALSE,
     handler |-> <<>>, outcome |-> "none"]

ConsumerOn == [ConsumerOff EXCEPT !.running = TRUE]

\* a message in a queue: seq is its position among the messages the exchange accepted;
\* failures is history: how often a handler has failed on it (0, 1, or 2 for more)
Message(seq, body) == [seq |-> seq, body |-> body, redelivered |-> FALSE, failures |-> 0]

\* a body on the exchange that is not JSON
MalformedBodies == {[raw |-> "not json"]}

\* the exchange routes a message with key "order.created" to every queue bound with that
\* key, that is every queue a consumer has declared so far; with mandatory = false a
\* message that matches no queue is dropped
Route(qs, seq, body) == [q \in DOMAIN qs |-> Append(qs[q], Message(seq, body))]

\* QueueDeclare + QueueBind: creates the durable queue unless it exists already
QueueDeclare(qs, name) == IF name \in DOMAIN qs THEN qs ELSE (name :> <<>>) @@ qs

\* mutant: no Qos is set, the broker sends every ready message at once
CanDeliverNoQos(cons) == cons.running

\* the broker sends a consumer the next message while fewer than PrefetchCount of its
\* deliveries are unacknowledged
CanDeliver(cons) == cons.running /\ Len(cons.unacked) < PrefetchCount

\* mutant: the broker discards a message that is nacked or left unanswered
NackDiscards(q, msg, requeue) == q

\* msg.Nack(false, requeue): a requeued message goes back to the head of its queue and is
\* marked redelivered; otherwise the broker discards it
Nack(q, msg, requeue) ==
    IF requeue THEN <<[msg EXCEPT !.redelivered = TRUE]>> \o q ELSE q

\* msg.Ack(false): the broker discards the message
Ack(q, msg) == q

\* json.Unmarshal(msg.Body, &event)
UnmarshalEvent(body) ==
    IF "raw" \in DOMAIN body THEN [err |-> "invalid character", event |-> <<>>]
    ELSE [err |-> Nil,
          event |-> <<[OrderID |-> body.order_id, CustomerID |-> body.customer_id,
                       ProductID |-> body.product_id, Quantity |-> body.quantity,
                       TotalAmount |-> body.total_amount, Status |-> body.status,
                       CreatedAt |-> body.created_at, EventType |-> body.event_type]>>]

\* mutant: a body that does not parse is nacked with requeue
OnUnmarshalErrorRequeue(q, msg) == [queue |-> Nack(q, msg, TRUE), outcome |-> "nack-requeue"]

\* the loop's answer to a body that does not parse: Nack(false, false)
OnUnmarshalError(q, msg) == [queue |-> Nack(q, msg, FALSE), outcome |-> "nack-drop"]

\* mutant: a handler error is answered with Nack(false, false)
OnHandlerErrorDrop(q, msg) == [queue |-> Nack(q, msg, FALSE), outcome |-> "nack-drop"]

\* the loop's answer to a handler error: Nack(false, true)
OnHandlerError(q, msg) == [queue |-> Nack(q, msg, TRUE), outcome |-> "nack-requeue"]

\* mutant: a handled message is put back instead of acked
OnHandlerSuccessRequeue(q, msg) == [queue |-> Nack(q, msg, TRUE), outcome |-> "nack-requeue"]

\* the loop's answer to a handler success: Ack(false)
OnHandlerSuccess(q, msg) == [queue |-> Ack(q, msg), outcome |-> "ack"]

-----------------------------------------------------------------------------
(* Aggregate Consumer: AnalyticsService over order_metrics and the summary cache *)

\* what INSERT INTO order_metrics stores of a metric
MetricRow(rows, metric) ==
    [id |-> Len(rows) + 1, order_id |-> metric.OrderID,
     customer_id |-> metric.CustomerID, product_id |-> metric.ProductID,
     quantity |-> metric.Quantity,
     total_amount |-> RoundToCents(metric.TotalAmount),
     processed_at |-> RoundToSeconds(metric.ProcessedAt)]

\* mutant: the row is stored although the save reports an error
SaveOrderMetricWritesOnError(rows, metric, dbFail) ==
    [err |-> IF dbFail THEN "failed to save order metric: db error" ELSE Nil,
     rows |-> Append(rows, MetricRow(rows, metric))]

\* mutant: the insert replaces what the table held
SaveOrderMetricReplaces(rows, metric, dbFail) ==
    IF dbFail THEN [err |-> "failed to save order metric: db error", rows |-> rows]
    ELSE [err |-> Nil,
          rows |-> <<MetricRow(rows, metric)>>]

\* SaveOrderMetric: INSERT one row; id is AUTO_INCREMENT, total_amount DECIMAL(10, 2),
\* processed_at TIMESTAMP
SaveOrderMetric(rows, metric, dbFail) ==
    IF dbFail THEN [err |-> "failed to save order metric: db error", rows |-> rows]
    ELSE [err |-> Nil,
          rows |-> Append(rows, MetricRow(rows, metric))]

\* InvalidateSummary: DEL analytics:summary
InvalidateSummary(sc, cacheFail) ==
    IF cacheFail THEN [err |-> "failed to invalidate summary cache", cache |-> sc]
    ELSE [err |-> Nil, cache |-> <<>>]

\* mutant: the summary cache is left alone after the save
ProcessOrderEventNoInvalidate(rows, sc, event, now, dbFail, cacheFail) ==
    LET metric == [OrderID |-> event.OrderID, CustomerID |-> event.CustomerID,
                   ProductID |-> event.ProductID, Quantity |-> event.Quantity,
                   TotalAmount |-> event.TotalAmount, ProcessedAt |-> now]
        saved  == SaveOrderMetric(rows, metric, dbFail)
    IN  IF saved.err # Nil
        THEN [err |-> "failed to save order metric: " \o saved.err, rows |-> saved.rows,
              cache |-> sc,
              calls |-> <<Call("repo.SaveOrderMetric", "error")>>]
        ELSE [err |-> Nil, rows |-> saved.rows, cache |-> sc,
              calls |-> <<Call("repo.SaveOrderMetric", "ok")>>]

\* mutant: a failed invalidation of the summary cache fails the handler
ProcessOrderEventInvalidationFatal(rows, sc, event, now, dbFail, cacheFail) ==
    LET metric == [OrderID |-> event.OrderID, CustomerID |-> event.CustomerID,
                   ProductID |-> event.ProductID, Quantity |-> event.Quantity,
                   TotalAmount |-> event.TotalAmount, ProcessedAt |-> now]
        saved  == SaveOrderMetric(rows, metric, dbFail)
        inv    == InvalidateSummary(sc, cacheFail)
    IN  IF saved.err # Nil
        THEN [err |-> "failed to save order metric: " \o saved.err, rows |-> saved.rows,
              cache |-> sc,
              calls |-> <<Call("repo.SaveOrderMetric", "error")>>]
        ELSE [err |-> inv.err, rows |-> saved.rows, cache |-> inv.cache,
              calls |-> <<Call("repo.SaveOrderMetric", "ok"),
                          Call("cache.InvalidateSummary",
                               IF inv.err = Nil THEN "ok" ELSE "error")>>]

\* ProcessOrderEvent: build the metric, save it (an error ends the handler), then
\* invalidate the summary cache (an error is only logged)
ProcessOrderEvent(rows, sc, event, now, dbFail, cacheFail) ==
    LET metric == [OrderID |-> event.OrderID, CustomerID |-> event.CustomerID,
                   ProductID |-> event.ProductID, Quantity |-> event.Quantity,
                   TotalAmount |-> event.TotalAmount, ProcessedAt |-> now]
        saved  == SaveOrderMetric(rows, metric, dbFail)
        inv    == InvalidateSummary(sc, cacheFail)
    IN  IF saved.err # Nil
        THEN [err |-> "failed to save order metric: " \o saved.err, rows |-> saved.rows,
              cache |-> sc,
              calls |-> <<Call("repo.SaveOrderMetric", "error")>>]
        ELSE [err |-> Nil, rows |-> saved.rows, cache |-> inv.cache,
              calls |-> <<Call("repo.SaveOrderMetric", "ok"),
                          Call("cache.InvalidateSummary",
                               IF inv.err = Nil THEN "ok" ELSE "error")>>]

RECURSIVE SumAmounts(_)
\* SUM(total_amount) over the rows
SumAmounts(rows) ==
    IF rows = <<>> THEN 0 ELSE Head(rows).total_amount + SumAmounts(Tail(rows))

\* repo.GetSummary: COUNT(*), COALESCE(SUM, 0), COALESCE(AVG, 0) over all rows, stamped
\* with time.Now(); the average is kept to the mill
RepoGetSummary(rows, now, dbFail) ==
    IF dbFail THEN [err |-> "failed to get summary: db error", summary |-> <<>>]
    ELSE [err |-> Nil,
          summary |-> <<[TotalOrders |-> Len(rows),
                         TotalRevenue |-> SumAmounts(rows),
                         AverageOrderSize |-> IF rows = <<>> THEN 0
                                              ELSE SumAmounts(rows) \div Len(rows),
                         LastUpdated |-> now]>>]

\* json.Marshal of an AnalyticsSummary
MarshalSummary(summary) ==
    [total_orders |-> summary.TotalOrders, total_revenue |-> summary.TotalRevenue,
     average_order_size |-> summary.AverageOrderSize, last_updated |-> summary.LastUpdated]

\* json.Unmarshal into an AnalyticsSummary
UnmarshalSummary(data) ==
    [TotalOrders |-> data.total_orders, TotalRevenue |-> data.total_revenue,
     AverageOrderSize |-> data.average_order_size, LastUpdated |-> data.last_updated]

\* cache.GetSummary: GET analytics:summary
CacheGetSummary(sc, cacheFail) ==
    IF cacheFail THEN [err |-> "failed to get summary from cache", summary |-> <<>>]
    ELSE IF sc = <<>> THEN [err |-> "summary not found in cache", summary |-> <<>>]
    ELSE [err |-> Nil, summary |-> <<UnmarshalSummary(sc[1])>>]

\* cache.SetSummary: SET analytics:summary json EX summaryTTL
CacheSetSummary(sc, summary, cacheFail) ==
    IF cacheFail THEN [err |-> "failed to set summary in cache", cache |-> sc]
    ELSE [err |-> Nil, cache |-> <<MarshalSummary(summary)>>]

\* mutant: the table is read before the cache is asked
ServiceGetSummaryReadsTableFirst(rows, sc, now, getFail, dbFail) ==
    LET hit  == CacheGetSummary(sc, getFail)
        comp == RepoGetSummary(rows, now, dbFail)
    IN  IF hit.err = Nil
        THEN [err |-> Nil, summary |-> hit.summary, toCache |-> FALSE,
              calls |-> <<Call("repo.GetSummary", IF comp.err = Nil THEN "ok" ELSE "error"),
                          Call("cache.GetSummary", "hit")>>]
        ELSE IF comp.err # Nil
             THEN [err |-> "failed to get summary: " \o comp.err, summary |-> <<>>,
                   toCache |-> FALSE,
                   calls |-> <<Call("cache.GetSummary", "miss"),
                               Call("repo.GetSummary", "error")>>]
             ELSE [err |-> Nil, summary |-> comp.summary, toCache |-> TRUE,
                   calls |-> <<Call("cache.GetSummary", "miss"),
                               Call("repo.GetSummary", "ok")>>]

\* GetSummary up to its cache write: the cached summary if the cache answers with one
\* (any error of the cache counts as a miss), otherwise the summary computed from the
\* table, which is to be cached (toCache) before it is returned
ServiceGetSummary(rows, sc, now, getFail, dbFail) ==
    LET hit  == CacheGetSummary(sc, getFail)
        comp == RepoGetSummary(rows, now, dbFail)
    IN  IF hit.err = Nil
        THEN [err |-> Nil, summary |-> hit.summary, toCache |-> FALSE,
              calls |-> <<Call("cache.GetSummary", "hit")>>]
        ELSE IF comp.err # Nil
             THEN [err |-> "failed to get summary: " \o comp.err, summary |-> <<>>,
                   toCache |-> FALSE,
                   calls |-> <<Call("cache.GetSummary", "miss"),
                               Call("repo.GetSummary", "error")>>]
             ELSE [err |-> Nil, summary |-> comp.summary, toCache |-> TRUE,
                   calls |-> <<Call("cache.GetSummary", "miss"),
                               Call("repo.GetSummary", "ok")>>]

\* GET /analytics/summary: 500 on a service error, otherwise 200 with the summary
HandlerGetSummary(res) ==
    IF res.err # Nil THEN [code |-> 500, error |-> "Failed to get analytics summary"]
    ELSE [code |-> 200, error |-> ""]

-----------------------------------------------------------------------------
(* Notification Consumer: sendNotification *)

\* mutant: an order id that was notified before is skipped
SendNotificationOnce(sent, event) ==
    IF \E i \in DOMAIN sent : sent[i].OrderID = event.OrderID
    THEN [err |-> Nil, notified |-> sent]
    ELSE [err |-> Nil,
          notified |-> Append(sent, [OrderID |-> event.OrderID,
                                     CustomerID |-> event.CustomerID])]

\* mutant: the failure branch is live and taken for orders of more than one item
SendNotificationMayFail(sent, event) ==
    IF event.Quantity > 1
    THEN [err |-> "simulated notification service failure", notified |-> sent]
    ELSE [err |-> Nil,
          notified |-> Append(sent, [OrderID |-> event.OrderID,
                                     CustomerID |-> event.CustomerID])]

\* sendNotification: log the notification; the failure branch is commented out, the
\* function always returns nil
SendNotification(sent, event) ==
    [err |-> Nil,
     notified |-> Append(sent, [OrderID |-> event.OrderID, CustomerID |-> event.CustomerID])]

-----------------------------------------------------------------------------
(* State machine *)

\* lastSummary before the first GET /analytics/summary
NoSummary ==
    [phase |-> "idle", startRows |-> 0, err |-> Nil, summary |-> <<>>, calls |-> <<>>,
     prev |-> <<>>, http |-> NoResponse]

\* last while no response is waiting to be read
Idle ==
    [op |-> "idle", req |-> NoRequest, id |-> "", err |-> Nil, order |-> <<>>, calls |-> <<>>,
     http |-> NoResponse]

Init ==
    /\ store = <<>>
    /\ cache = <<>>
    /\ clock = 0
    /\ pending = {}
    /\ published = <<>>
    /\ connOpen = TRUE
    /\ created = {}
    /\ newest = ""
    /\ last = Idle
    /\ queues = <<>>
    /\ consumers = [c \in Consumers |-> ConsumerOff]
    /\ metrics = <<>>
    /\ summaryCache = <<>>
    /\ notified = <<>>
    /\ lastSummary = NoSummary

\* uuid.New() draws any uuid of the pool: one already in the table (a collision) or an
\* unused one.  Unused uuids are interchangeable, so the first unused one stands for all.
DrawUUIDFrom(n, st) == {UUIDString(k) : k \in {j \in 1..n : j <= Cardinality(DOMAIN st) + 1}}

DrawUUID(st) == DrawUUIDFrom(NumUUIDs, st)

\* the state and the observation one CreateOrder call leaves behind
CreateOrderEffect(req, res, now2) ==
    /\ clock' = now2
    /\ store' = res.store
    /\ cache' = res.cache
    /\ pending' = pending \cup res.spawned
    /\ created' = created \cup {res.order[i] : i \in 1..Len(res.order)}
    /\ newest' = IF res.err = Nil THEN res.order[1].ID ELSE newest
    /\ last' = [op |-> "CreateOrder", req |-> req, id |-> "", err |-> res.err,
                order |-> res.order, calls |-> res.calls, http |-> HandlerCreateOrder(res)]
    /\ UNCHANGED <<published, connOpen, queues, eventVars>>

\* POST /orders.  The uuid drawn, the ticks d between the two time.Now() readings and the
\* outcome of each store and cache call are chosen where the code gets to them.
CreateOrderWith(req, ids) ==
    /\ last = Idle
    /\ IF ValidateRequest(req) # Nil
       THEN CreateOrderEffect(req,
                ServiceCreateOrder(store, cache, req, "", clock, clock, FALSE, FALSE), clock)
       ELSE \E id \in ids, d \in 0..1, dbFail \in BOOLEAN :
              /\ clock + d <= MaxClock
              /\ \E cacheFail \in (IF dbFail \/ id \in DOMAIN store THEN {FALSE} ELSE BOOLEAN) :
                    CreateOrderEffect(req,
                        ServiceCreateOrder(store, cache, req, id, clock, clock + d,
                                           dbFail, cacheFail), clock + d)

CreateOrder(req) == CreateOrderWith(req, DrawUUID(store))

\* GET /orders/{id}
GetOrder(id, getFail, dbFail, setFail) ==
    LET res == ServiceGetOrderByID(store, cache, id, getFail, dbFail, setFail)
    IN  /\ last = Idle
        /\ cache' = res.cache
        /\ last' = [op |-> "GetOrder", req |-> NoRequest, id |-> id, err |-> res.err,
                    order |-> res.order, calls |-> res.calls, http |-> HandlerGetOrder(id, res)]
        /\ UNCHANGED <<store, clock, pending, published, connOpen, created, newest>>
        /\ UNCHANGED <<queues, eventVars>>

\* GET /health of the order service; dbErr and cacheErr are what the two pings return
HealthCheck(dbErr, cacheErr) ==
    LET res == HandlerHealthCheck(dbErr, cacheErr, PublisherHealthCheck(connOpen))
    IN  /\ last = Idle
        /\ last' = [op |-> "HealthCheck", req |-> NoRequest, id |-> "", err |-> Nil,
                    order |-> <<>>, calls |-> res.calls,
                    http |-> [code |-> res.code, error |-> res.error,
                              status |-> res.status, checks |-> res.checks]]
        /\ UNCHANGED <<store, cache, clock, pending, published, connOpen, created, newest>>
        /\ UNCHANGED <<queues, eventVars>>

\* mutant: the listing warms the cache with the first order it returns
ListOrdersWarmsCache(limitStr, offsetStr, dbFail, perm) ==
    LET q   == ListQuery(limitStr, offsetStr)
        res == ServiceListOrders(store, q.Limit, q.Offset, dbFail, perm)
    IN  /\ last = Idle
        /\ last' = [op |-> "ListOrders", req |-> q, id |-> "", err |-> res.err,
                    order |-> res.orders, calls |-> res.calls,
                    http |-> HandlerListOrders(res)]
        /\ cache' = IF res.orders = <<>> THEN cache
                    ELSE CacheSet(cache, res.orders[1], FALSE).cache
        /\ UNCHANGED <<store, clock, pending, published, connOpen, created, newest>>
        /\ UNCHANGED <<queues, eventVars>>

\* GET /orders?limit=..&offset=..
\* perm is the order in which the server returns the rows this time.
ListOrders(limitStr, offsetStr, dbFail, perm) ==
    LET q   == ListQuery(limitStr, offsetStr)
        res == ServiceListOrders(store, q.Limit, q.Offset, dbFail, perm)
    IN  /\ last = Idle
        /\ last' = [op |-> "ListOrders", req |-> q, id |-> "", err |-> res.err,
                    order |-> res.orders, calls |-> res.calls,
                    http |-> HandlerListOrders(res)]
        /\ UNCHANGED <<store, cache, clock, pending, published, connOpen, created, newest>>
        /\ UNCHANGED <<queues, eventVars>>

\* the response has been read by the client: the service is idle again
Return ==
    /\ last # Idle
    /\ last' = Idle
    /\ UNCHANGED <<store, cache, clock, pending, published, connOpen, created, newest>>
    /\ UNCHANGED <<queues, eventVars>>

\* mutant: the goroutine of an order whose publish failed stays, to try again
PublishRetries(order) ==
    LET res == PublishOrderCreated(published, EventOf(order), connOpen)
    IN  /\ last = Idle
        /\ order \in pending
        /\ pending' = IF res.err = Nil THEN pending \ {order} ELSE pending
        /\ published' = res.published
        /\ queues' = IF res.err = Nil
                     THEN Route(queues, Len(res.published), res.published[Len(res.published)])
                     ELSE queues
        /\ UNCHANGED <<store, cache, clock, connOpen, created, newest, last, eventVars>>

\* the detached goroutine of one created order runs: build the event and publish it once
Publish(order) ==
    LET res == PublishOrderCreated(published, EventOf(order), connOpen)
    IN  /\ last = Idle
        /\ order \in pending
        /\ pending' = pending \ {order}
        /\ published' = res.published
        /\ queues' = IF res.err = Nil
                     THEN Route(queues, Len(res.published), res.published[Len(res.published)])
                     ELSE queues
        /\ UNCHANGED <<store, cache, clock, connOpen, created, newest, last, eventVars>>

\* environment: time passes
Tick ==
    /\ last = Idle
    /\ clock < MaxClock
    /\ clock' = clock + 1
    /\ UNCHANGED <<store, cache, pending, published, connOpen, created, newest, last>>
    /\ UNCHANGED <<queues, eventVars>>

\* environment: a cache key reaches its TTL (orderTTL) or is evicted
Expire(key) ==
    /\ last = Idle
    /\ key \in DOMAIN cache
    /\ cache' = [k \in DOMAIN cache \ {key} |-> cache[k]]
    /\ UNCHANGED <<store, clock, pending, published, connOpen, created, newest, last>>
    /\ UNCHANGED <<queues, eventVars>>

\* environment: the AMQP connection drops; the publisher has no code that reopens it
ConnectionDrop ==
    /\ last = Idle
    /\ connOpen
    /\ connOpen' = FALSE
    /\ UNCHANGED <<store, cache, clock, pending, published, created, newest, last>>
    /\ UNCHANGED <<queues, eventVars>>

\* the order service's own variables
orderVars == <<store, cache, clock, pending, connOpen, created, newest, last>>

\* environment: another client of the broker publishes a body that is not JSON to the
\* "orders" exchange with the key "order.created"
MalformedPublish(body) ==
    /\ \A i \in DOMAIN published : published[i] # body
    /\ published' = Append(published, body)
    /\ queues' = Route(queues, Len(published) + 1, body)
    /\ UNCHANGED <<orderVars, eventVars>>

\* a consumer process starts: NewRabbitMQConsumer (the queue is declared and bound), then
\* StartConsuming (Qos, Consume with auto-ack off); in the worker the same steps of main
Start(c) ==
    /\ ~consumers[c].running
    /\ queues' = QueueDeclare(queues, QueueName(c))
    /\ consumers' = [consumers EXCEPT ![c] = ConsumerOn]
    /\ UNCHANGED <<orderVars, published, metrics, summaryCache, notified, lastSummary>>

\* mutant: the broker sends the consumer the message that entered its queue last
DeliverNewest(c) ==
    LET q == queues[QueueName(c)]
    IN  /\ CanDeliver(consumers[c])
        /\ q # <<>>
        /\ queues' = [queues EXCEPT ![QueueName(c)] = SubSeq(q, 1, Len(q) - 1)]
        /\ consumers' = [consumers EXCEPT ![c].unacked = Append(@, q[Len(q)]),
                                          ![c].handler = <<>>, ![c].outcome = "none"]
        /\ UNCHANGED <<orderVars, published, metrics, summaryCache, notified, lastSummary>>

\* the broker sends the consumer the message at the head of its queue
Deliver(c) ==
    /\ CanDeliver(consumers[c])
    /\ queues[QueueName(c)] # <<>>
    /\ queues' = [queues EXCEPT ![QueueName(c)] = Tail(@)]
    /\ consumers' = [consumers EXCEPT ![c].unacked = Append(@, Head(queues[QueueName(c)])),
                                      ![c].handler = <<>>, ![c].outcome = "none"]
    /\ UNCHANGED <<orderVars, published, metrics, summaryCache, notified, lastSummary>>

\* the loop takes the next delivery from msgs and parses it: a body that does not parse is
\* nacked and the loop continues, otherwise the handler is called
Receive(c) ==
    LET msg == Head(consumers[c].unacked)
        ans == OnUnmarshalError(queues[QueueName(c)], msg)
    IN  /\ consumers[c].running /\ ~consumers[c].handling
        /\ consumers[c].unacked # <<>>
        /\ IF UnmarshalEvent(msg.body).err # Nil
           THEN /\ queues' = [queues EXCEPT ![QueueName(c)] = ans.queue]
                /\ consumers' = [consumers EXCEPT ![c].unacked = Tail(@),
                                                  ![c].outcome = ans.outcome]
           ELSE /\ consumers' = [consumers EXCEPT ![c].handling = TRUE]
                /\ UNCHANGED queues
        /\ UNCHANGED <<orderVars, published, metrics, summaryCache, notified, lastSummary>>

RECURSIVE Requeue(_, _)
\* the broker puts unanswered deliveries back at the head of the queue, oldest first
Requeue(q, unacked) ==
    IF unacked = <<>> THEN q
    ELSE Nack(Requeue(q, Tail(unacked)), Head(unacked), TRUE)

\* a delivery on which the handler has returned err
Counted(msg, err) ==
    IF err = Nil THEN msg
    ELSE [msg EXCEPT !.failures = IF @ < 2 THEN @ + 1 ELSE @]

\* what is remembered of a handler run: the error it returned, the calls it made, and how
\* often the handler had failed on this delivery before
Returned(c, res, calls) ==
    [err |-> res.err, calls |-> calls, failedBefore |-> Head(consumers[c].unacked).failures]

\* mutant: a delivery whose handler failed gets no answer and the loop goes on
AnswerForgetsFailure(c, res, calls, connLost) ==
    LET msg == Counted(Head(consumers[c].unacked), res.err)
        ans == OnHandlerSuccess(queues[QueueName(c)], msg)
    IN  IF res.err # Nil
        THEN /\ UNCHANGED queues
             /\ consumers' = [consumers EXCEPT
                                 ![c].handling = FALSE, ![c].inFlight = FALSE,
                                 ![c].handler = <<Returned(c, res, calls)>>]
        ELSE /\ queues' = [queues EXCEPT ![QueueName(c)] = ans.queue]
             /\ consumers' = [consumers EXCEPT
                                 ![c].unacked = Tail(@), ![c].handling = FALSE,
                                 ![c].inFlight = FALSE,
                                 ![c].handler = <<Returned(c, res, calls)>>,
                                 ![c].outcome = ans.outcome]

\* what the loop's answer to the oldest delivery leaves behind.  When the connection is
\* gone by then (connLost), Ack or Nack fails, which the loop ignores or logs; the msgs
\* channel is closed, the loop ends, and the broker puts the unanswered deliveries back.
Answer(c, res, calls, connLost) ==
    LET msg == Counted(Head(consumers[c].unacked), res.err)
        ans == IF res.err # Nil THEN OnHandlerError(queues[QueueName(c)], msg)
               ELSE OnHandlerSuccess(queues[QueueName(c)], msg)
    IN  IF connLost
        THEN /\ queues' = [queues EXCEPT ![QueueName(c)] =
                              Requeue(@, <<msg>> \o Tail(consumers[c].unacked))]
             /\ consumers' = [consumers EXCEPT ![c] =
                                 [ConsumerOff EXCEPT
                                    !.handler = <<Returned(c, res, calls)>>,
                                    !.outcome = "lost"]]
        ELSE /\ queues' = [queues EXCEPT ![QueueName(c)] = ans.queue]
             /\ consumers' = [consumers EXCEPT
                                 ![c].unacked = Tail(@), ![c].handling = FALSE,
                                 ![c].inFlight = FALSE,
                                 ![c].handler = <<Returned(c, res, calls)>>,
                                 ![c].outcome = ans.outcome]

\* the analytics handler (ProcessOrderEvent) returns and the loop answers the delivery
HandleAnalytics(dbFail, cacheFail, connLost) ==
    LET c   == "analytics"
        msg == Head(consumers[c].unacked)
        res == ProcessOrderEvent(metrics, summaryCache, UnmarshalEvent(msg.body).event[1],
                                 clock, dbFail, cacheFail)
    IN  /\ consumers[c].running /\ consumers[c].handling
        /\ Len(res.rows) <= MaxRows
        /\ metrics' = res.rows
        /\ summaryCache' = res.cache
        /\ Answer(c, res, res.calls, connLost)
        /\ UNCHANGED <<orderVars, published, notified, lastSummary>>

\* the worker's handler (sendNotification) returns and the loop answers the delivery
HandleNotification(connLost) ==
    LET c   == "notification"
        msg == Head(consumers[c].unacked)
        res == SendNotification(notified, UnmarshalEvent(msg.body).event[1])
    IN  /\ consumers[c].running /\ consumers[c].handling
        /\ Len(res.notified) <= MaxRows
        /\ notified' = res.notified
        /\ Answer(c, res, <<>>, connLost)
        /\ UNCHANGED <<orderVars, published, metrics, summaryCache, lastSummary>>

\* a consumer process stops and its connection closes: the deliveries it has not answered
\* go back to its queue
Stop(c) ==
    /\ consumers[c].running
    /\ queues' = [queues EXCEPT ![QueueName(c)] = Requeue(@, consumers[c].unacked)]
    /\ consumers' = [consumers EXCEPT ![c] = ConsumerOff]
    /\ UNCHANGED <<orderVars, published, metrics, summaryCache, notified, lastSummary>>

\* SIGINT or SIGTERM reaches a consumer process: the context of its loop is cancelled
Shutdown(c) ==
    /\ consumers[c].running /\ ~consumers[c].stopping
    /\ consumers' = [consumers EXCEPT ![c].stopping = TRUE,
                                      ![c].inFlight = consumers[c].handling]
    /\ UNCHANGED <<orderVars, published, queues, metrics, summaryCache, notified, lastSummary>>

\* the process exits after the signal and its connection closes.  The worker's loop runs in
\* main, which returns only from the select between two deliveries; the analytics
\* service's main cancels the context of the loop's goroutine, shuts the HTTP server down
\* and returns without waiting for that goroutine.
Exit(c) ==
    /\ consumers[c].running /\ consumers[c].stopping
    /\ c = "notification" => ~consumers[c].handling
    /\ queues' = [queues EXCEPT ![QueueName(c)] = Requeue(@, consumers[c].unacked)]
    /\ consumers' = [consumers EXCEPT ![c] = [ConsumerOff EXCEPT !.outcome = "exit"]]
    /\ UNCHANGED <<orderVars, published, metrics, summaryCache, notified, lastSummary>>

\* GET /analytics/summary starts: the service asks the cache and, unless the cache
\* answers with a summary, computes the summary from the table.  The call remembers how
\* many rows the table had when it started and, when the call before it started at the
\* same number of rows, what that call returned.
GetSummary(getFail, dbFail) ==
    LET res == ServiceGetSummary(metrics, summaryCache, clock, getFail, dbFail)
    IN  /\ lastSummary.phase = "idle"
        /\ lastSummary' =
              [phase |-> IF res.toCache THEN "computed" ELSE "done",
               startRows |-> Len(metrics), err |-> res.err, summary |-> res.summary,
               calls |-> res.calls,
               prev |-> IF lastSummary.startRows = Len(metrics) THEN lastSummary.summary
                        ELSE <<>>,
               http |-> HandlerGetSummary(res)]
        /\ UNCHANGED <<orderVars, published, queues, consumers, metrics, summaryCache,
                       notified>>

\* the call that computed its summary from the table writes it to the cache (an error is
\* only logged) and returns it
CacheSummary(setFail) ==
    LET set == CacheSetSummary(summaryCache, lastSummary.summary[1], setFail)
    IN  /\ lastSummary.phase = "computed"
        /\ summaryCache' = set.cache
        /\ lastSummary' =
              [lastSummary EXCEPT !.phase = "done",
                 !.calls = Append(@, Call("cache.SetSummary",
                                          IF set.err = Nil THEN "ok" ELSE "error"))]
        /\ UNCHANGED <<orderVars, published, queues, consumers, metrics, notified>>

\* the client has read the response; what the call returned is remembered for the next
ReturnSummary ==
    /\ lastSummary.phase = "done"
    /\ lastSummary' = [NoSummary EXCEPT !.startRows = lastSummary.startRows,
                                        !.summary = lastSummary.summary]
    /\ UNCHANGED <<orderVars, published, queues, consumers, metrics, summaryCache, notified>>

\* environment: the cached summary reaches its TTL (summaryTTL) or is evicted
ExpireSummary ==
    /\ summaryCache # <<>>
    /\ summaryCache' = <<>>
    /\ UNCHANGED <<orderVars, published, queues, consumers, metrics, notified, lastSummary>>

Next ==
    \/ \E req \in Requests : CreateOrder(req)
    \/ \E id \in LookupIDs, getFail \in BOOLEAN, dbFail \in BOOLEAN, setFail \in BOOLEAN :
          GetOrder(id, getFail, dbFail, setFail)
    \/ Return
    \/ \E order \in pending : Publish(order)
    \/ Tick
    \/ \E key \in DOMAIN cache : Expire(key)
    \/ ConnectionDrop

Spec == Init /\ [][Next]_vars

\* The publish path on its own: orders are created and their goroutines publish while the
\* connection may drop.  The Go scheduler runs every goroutine that can run, and the
\* clients keep calling: no step that stays possible is put off forever.
NextPublisher ==
    \/ \E req \in Requests : CreateOrder(req)
    \/ Return
    \/ \E order \in pending : Publish(order)
    \/ ConnectionDrop

SpecPublisher == Init /\ [][NextPublisher]_vars /\ WF_vars(NextPublisher)

\* The health endpoint: orders are created and published and the connection may drop
\* while GET /health is called.
NextHealth ==
    \/ \E req \in Requests : CreateOrder(req)
    \/ Return
    \/ \E order \in pending : Publish(order)
    \/ ConnectionDrop
    \/ \E dbErr \in PingErrors, cacheErr \in PingErrors : HealthCheck(dbErr, cacheErr)

SpecHealth == Init /\ [][NextHealth]_vars

\* The listing path on its own: orders are created (uuid.New() drawing from a pool one
\* larger, so that three orders fit) and listed while time passes.
NextList ==
    \/ \E req \in Requests : CreateOrderWith(req, DrawUUIDFrom(NumUUIDs + 1, store))
    \/ /\ last = Idle
       /\ \E perm \in RowOrders(store), limitStr \in LimitValues, offsetStr \in OffsetValues :
             ListOrders(limitStr, offsetStr, FALSE, perm)
    \/ \E limitStr \in LimitValues, offsetStr \in OffsetValues :
          ListOrders(limitStr, offsetStr, TRUE, <<>>)
    \/ Return
    \/ Tick

SpecList == Init /\ [][NextList]_vars

\* the requests whose orders flow through the system; the second amount has a third decimal
SystemRequests ==
    <<[CustomerID |-> "customer-123", ProductID |-> "product-456", Quantity |-> 2,
       TotalAmount |-> 99990],
      [CustomerID |-> "customer-789", ProductID |-> "product-456", Quantity |-> 1,
       TotalAmount |-> 49994]>>

RECURSIVE AfterCreates(_)
\* the order service after CreateOrder has succeeded for the first k of SystemRequests
AfterCreates(k) ==
    IF k = 0 THEN [store |-> <<>>, cache |-> <<>>, spawned |-> {}, id |-> ""]
    ELSE LET before == AfterCreates(k - 1)
             res    == ServiceCreateOrder(before.store, before.cache, SystemRequests[k],
                                          UUIDString(k), 0, 0, FALSE, FALSE)
         IN  [store |-> res.store, cache |-> res.cache,
              spawned |-> before.spawned \cup res.spawned, id |-> res.order[1].ID]

\* The event flow starts where the orders of SystemRequests have been created and their
\* publish goroutines have not run yet; no consumer has ever started, so the broker
\* holds the exchange and no queue.
InitSystem ==
    LET made == AfterCreates(Len(SystemRequests))
    IN  /\ store = made.store
        /\ cache = made.cache
        /\ clock = 0
        /\ pending = made.spawned
        /\ published = <<>>
        /\ connOpen = TRUE
        /\ created = made.spawned
        /\ newest = made.id
        /\ last = Idle
        /\ queues = <<>>
        /\ consumers = [c \in Consumers |-> ConsumerOff]
        /\ metrics = <<>>
        /\ summaryCache = <<>>
        /\ notified = <<>>
        /\ lastSummary = NoSummary

\* The event flow: the pending events are published while the two consumers start,
\* consume and stop; every answer of a loop reaches the broker.
NextSystem ==
    \/ \E order \in pending : Publish(order)
    \/ ConnectionDrop
    \/ \E body \in MalformedBodies : MalformedPublish(body)
    \/ \E c \in Consumers : Start(c)
    \/ \E c \in Consumers : Deliver(c)
    \/ \E c \in Consumers : Receive(c)
    \/ \E dbFail \in BOOLEAN, cacheFail \in BOOLEAN :
          HandleAnalytics(dbFail, cacheFail, FALSE)
    \/ HandleNotification(FALSE)
    \/ \E c \in Consumers : Stop(c)

SpecSystem == InitSystem /\ [][NextSystem]_vars

\* The analytics service on its own: the pending events are published while its consumer
\* starts, consumes and stops, GET /analytics/summary is called, and time passes.
NextAnalytics ==
    \/ \E order \in pending : Publish(order)
    \/ Start("analytics")
    \/ Deliver("analytics")
    \/ Receive("analytics")
    \/ \E dbFail \in BOOLEAN, cacheFail \in BOOLEAN :
          HandleAnalytics(dbFail, cacheFail, FALSE)
    \/ Stop("analytics")
    \/ \E getFail \in BOOLEAN, dbFail \in BOOLEAN : GetSummary(getFail, dbFail)
    \/ \E setFail \in BOOLEAN : CacheSummary(setFail)
    \/ ReturnSummary
    \/ ExpireSummary
    \/ Tick

SpecAnalytics == InitSystem /\ [][NextAnalytics]_vars

\* Redelivery: the two consumers consume the published events while a connection may be
\* gone by the time a loop answers, and restart.
NextRedelivery ==
    \/ \E order \in pending : Publish(order)
    \/ \E c \in Consumers : Start(c)
    \/ \E c \in Consumers : Deliver(c)
    \/ \E c \in Consumers : Receive(c)
    \/ \E dbFail \in BOOLEAN, connLost \in BOOLEAN : HandleAnalytics(dbFail, FALSE, connLost)
    \/ \E connLost \in BOOLEAN : HandleNotification(connLost)

SpecRedelivery == InitSystem /\ [][NextRedelivery]_vars

\* Shutdown: the two consumers consume the published events, receive the shutdown signal
\* and exit, or stop without one, and are started again.
NextShutdown ==
    \/ \E order \in pending : Publish(order)
    \/ \E c \in Consumers : Start(c)
    \/ \E c \in Consumers : Deliver(c)
    \/ \E c \in Consumers : Receive(c)
    \/ \E dbFail \in BOOLEAN : HandleAnalytics(dbFail, FALSE, FALSE)
    \/ HandleNotification(FALSE)
    \/ \E c \in Consumers : Shutdown(c)
    \/ \E c \in Consumers : Exit(c)
    \/ \E c \in Consumers : Stop(c)

SpecShutdown == InitSystem /\ [][NextShutdown]_vars

-----------------------------------------------------------------------------
(* Reading an observation *)

\* the outcomes of the calls to `name` the observed API call made
CallOuts(l, name) == {l.calls[i].out : i \in {j \in DOMAIN l.calls : l.calls[j].call = name}}

Called(l, name) == CallOuts(l, name) # {}

\* this step is a CreateOrder call (a call starts only from Idle)
CreateStep == last = Idle /\ last'.op = "CreateOrder"

\* this step is a GetOrder(id) call
GetStep(id) == last = Idle /\ last'.op = "GetOrder" /\ last'.id = id

\* a request the spec calls invalid
InvalidRequest(req) ==
    req.CustomerID = "" \/ req.ProductID = "" \/ req.Quantity <= 0 \/ req.TotalAmount <= 0

ValidationErrors ==
    {"customer_id and product_id are required", "quantity must be greater than 0",
     "total_amount must be greater than 0"}

\* the messages ready in a consumer's queue (none while the queue does not exist)
QueueOf(c) == IF QueueName(c) \in DOMAIN queues THEN queues[QueueName(c)] ELSE <<>>

Seqs(msgs) == {msgs[i].seq : i \in DOMAIN msgs}

\* the messages the broker holds for a consumer: ready in its queue or sent and unanswered
Held(c) == Seqs(QueueOf(c)) \cup Seqs(consumers[c].unacked)

\* the message this step hands to the exchange, if it hands one
NewlyRouted == IF published' # published THEN {Len(published')} ELSE {}

\* a message that has left a consumer's queue and hands does not come back
GoneForGood == \A c \in Consumers : Held(c)' \subseteq Held(c) \cup NewlyRouted

\* the delivery a consumer's loop is working on
InHand(c) == Head(consumers[c].unacked)

\* this step is an iteration of c's loop on a delivery whose body does not parse
ParseFailStep(c) ==
    /\ consumers[c].running /\ ~consumers[c].handling /\ consumers[c].unacked # <<>>
    /\ UnmarshalEvent(InHand(c).body).err # Nil
    /\ consumers'[c].running /\ consumers'[c] # consumers[c]

\* in this step c's handler returns and the loop answers the delivery
HandleStep(c) ==
    consumers[c].handling /\ consumers'[c].running /\ ~consumers'[c].handling

\* c's loop, or the broker on its behalf, can take a step
CanStep(c) ==
    ENABLED (\/ Deliver(c)
             \/ Receive(c)
             \/ c = "analytics" /\ \E dbFail \in BOOLEAN, cacheFail \in BOOLEAN :
                                       HandleAnalytics(dbFail, cacheFail, FALSE)
             \/ c = "notification" /\ HandleNotification(FALSE))

-----------------------------------------------------------------------------
(* Claims *)

\* C1: a CreateOrder request with an empty customer ref, an empty product ref,
\* quantity <= 0 or total amount <= 0 fails with a validation error, and the call makes no
\* store, cache or publish call: store, cache, started goroutines and exchange are unchanged.
C1_InvalidRequestWritesNothing ==
    [][ (CreateStep /\ InvalidRequest(last'.req)) =>
            /\ last'.err \in ValidationErrors
            /\ last'.order = <<>>
            /\ last'.calls = <<>>
            /\ UNCHANGED <<store, cache, pending, published, created>> ]_vars

\* C1 witness: an invalid request has been rejected while orders were stored and cached
C1_Witness ==
    /\ last.op = "CreateOrder" /\ InvalidRequest(last.req) /\ last.err \in ValidationErrors
    /\ last.req.Quantity = 0
    /\ DOMAIN store # {} /\ DOMAIN cache # {}

C3_TimestampsEqual ==
    (last.op = "CreateOrder" /\ last.err = Nil) =>
        last.order[1].CreatedAt = last.order[1].UpdatedAt

\* the order ids of the events waiting in a publish goroutine or handed to the exchange
EventOrderIDs ==
    {o.ID : o \in pending} \cup {published[i].order_id : i \in DOMAIN published}

\* C4: when the Order Store write fails for a valid request, the request fails with an
\* error, nothing is written to the Order Cache, no publish goroutine is started and nothing
\* is published; and at no time is there an event for an order that is not in the store.
C4_StoreFailureIsFatal ==
    /\ [][ (CreateStep /\ ~InvalidRequest(last'.req)
                /\ CallOuts(last', "repo.Create") \cap {"error", "duplicate"} # {}) =>
              /\ last'.err # Nil
              /\ last'.err \notin ValidationErrors
              /\ last'.order = <<>>
              /\ ~Called(last', "cache.Set")
              /\ ~Called(last', "go publish")
              /\ UNCHANGED <<store, cache, pending, published, created>> ]_vars
    /\ [](EventOrderIDs \subseteq DOMAIN store)

\* C4 witness: a valid request has failed on the store write while the cache was empty
C4_Witness ==
    /\ last.op = "CreateOrder" /\ ~InvalidRequest(last.req)
    /\ CallOuts(last, "repo.Create") = {"error"}
    /\ last.err # Nil
    /\ DOMAIN cache = {} /\ pending = {} /\ published = <<>>

\* C5: when the Order Cache write fails after a successful store write, CreateOrder still
\* returns the order, the row stays in the Order Store, the cache is as it was and the
\* publish goroutine of that order is started.
C5_CacheFailureIsAbsorbed ==
    [][ (CreateStep /\ CallOuts(last', "repo.Create") = {"ok"}
             /\ CallOuts(last', "cache.Set") = {"error"}) =>
           /\ last'.err = Nil
           /\ Len(last'.order) = 1
           /\ last'.order[1].ID \notin DOMAIN store
           /\ last'.order[1].ID \in DOMAIN store'
           /\ store'[last'.order[1].ID] = OrderRow(last'.order[1])
           /\ \A id \in DOMAIN store : store'[id] = store[id]
           /\ cache' = cache
           /\ last'.order[1] \notin pending
           /\ pending' = pending \cup {last'.order[1]}
           /\ Called(last', "go publish") ]_vars

\* C5 witness: an order has been returned and stored although its cache write failed
C5_Witness ==
    /\ last.op = "CreateOrder" /\ last.err = Nil
    /\ CallOuts(last, "cache.Set") = {"error"}
    /\ last.order[1].ID \in DOMAIN store
    /\ OrderKey(last.order[1].ID) \notin DOMAIN cache
    /\ last.order[1] \in pending

\* C6: the result of CreateOrder does not depend on the publish step: whether the
\* connection to the exchange is open or not, a valid request whose store write succeeds
\* returns the created order, and returns it before anything is published; a publish step,
\* failed or not, changes neither the orders returned nor the store.
C6_ResultIndependentOfPublish ==
    [][ /\ (CreateStep /\ CallOuts(last', "repo.Create") = {"ok"}) =>
              /\ last'.err = Nil
              /\ Len(last'.order) = 1
              /\ last'.http.code = 201
              /\ last'.order[1] \in pending'
              /\ published' = published
        /\ (pending' # pending /\ pending' \subseteq pending) =>
              UNCHANGED <<store, cache, created, last>> ]_vars

\* C6 witness: CreateOrder has returned an order while the connection was closed and the
\* publish of that order had not run
C6_Witness ==
    /\ last.op = "CreateOrder" /\ last.err = Nil
    /\ ~connOpen
    /\ last.order[1] \in pending
    /\ published = <<>>

\* C7 (as claimed): after CreateOrder has returned order o, every order GetOrder(o.id)
\* returns equals o, whether it comes from the cache or from the store.
C7_ReadAfterWrite ==
    (last.op = "GetOrder" /\ last.err = Nil) =>
        \A o \in created : o.ID = last.id => last.order = <<o>>

\* C8: when the Order Cache holds an entry for id and the lookup reaches the cache,
\* GetOrder(id) returns that entry and makes no Order Store read and no cache write.
C8_CacheHitReadsNoStore ==
    [][ \A id \in LookupIDs :
          (GetStep(id) /\ OrderKey(id) \in DOMAIN cache
               /\ "error" \notin CallOuts(last', "cache.Get")) =>
             /\ last'.err = Nil
             /\ last'.order = <<UnmarshalOrder(cache[OrderKey(id)])>>
             /\ last'.http.code = 200
             /\ last'.calls = <<Call("cache.Get", "hit")>>
             /\ cache' = cache
             /\ store' = store ]_vars

\* C8 witness: GetOrder has been served from the cache
C8_Witness ==
    /\ last.op = "GetOrder" /\ last.err = Nil
    /\ last.calls = <<Call("cache.Get", "hit")>>
    /\ OrderKey(last.id) \in DOMAIN cache
    /\ last.order = <<UnmarshalOrder(cache[OrderKey(last.id)])>>

\* C9: a GetOrder(id) that finds no cache entry (never set, expired or evicted) reads the
\* order from the Order Store and writes it to the cache; once that write has succeeded, a
\* GetOrder(id) that follows before the entry expires finds it and makes no store read.
C9_CacheAside ==
    [][ \A id \in LookupIDs :
          (GetStep(id) /\ CallOuts(last', "cache.Get") = {"miss"}
               /\ CallOuts(last', "repo.GetByID") = {"ok"}) =>
             /\ OrderKey(id) \notin DOMAIN cache
             /\ last'.err = Nil
             /\ last'.order = <<ScanOrder(store[id])>>
             /\ Called(last', "cache.Set")
             /\ CallOuts(last', "cache.Set") = {"ok"} =>
                  /\ OrderKey(id) \in DOMAIN cache'
                  /\ UnmarshalOrder(cache'[OrderKey(id)]) = ScanOrder(store[id])
                  /\ \A dbFail \in BOOLEAN, setFail \in BOOLEAN :
                        LET again == ServiceGetOrderByID(store', cache', id, FALSE, dbFail, setFail)
                        IN  /\ again.calls = <<Call("cache.Get", "hit")>>
                            /\ again.order = last'.order
                            /\ again.err = Nil ]_vars

\* C9 witness: a GetOrder that missed the cache has read the store and filled the cache
C9_Witness ==
    /\ last.op = "GetOrder" /\ last.err = Nil
    /\ last.calls = <<Call("cache.Get", "miss"), Call("repo.GetByID", "ok"), Call("cache.Set", "ok")>>
    /\ OrderKey(last.id) \in DOMAIN cache
    /\ last.order = <<ScanOrder(store[last.id])>>

\* C10: GetOrder(id) for an id that is in neither the Order Cache nor the Order Store reads
\* the store, fails (with "order not found" when the store answers) and is answered
\* 404 "Order not found"; it writes nothing to the cache and nothing to the store.
C10_NotFoundWritesNothing ==
    [][ \A id \in LookupIDs :
          (GetStep(id) /\ OrderKey(id) \notin DOMAIN cache /\ id \notin DOMAIN store) =>
             /\ last'.err # Nil
             /\ last'.order = <<>>
             /\ Called(last', "repo.GetByID")
             /\ CallOuts(last', "repo.GetByID") = {"notfound"} =>
                   last'.err = "failed to get order: order not found"
             /\ last'.http = [code |-> 404, error |-> "Order not found"]
             /\ ~Called(last', "cache.Set")
             /\ cache' = cache
             /\ store' = store ]_vars

\* C10 witness: an id that was never stored has been looked up while other orders exist
C10_Witness ==
    /\ last.op = "GetOrder" /\ last.err = "failed to get order: order not found"
    /\ last.http.code = 404
    /\ last.id \notin DOMAIN store /\ OrderKey(last.id) \notin DOMAIN cache
    /\ DOMAIN store # {} /\ DOMAIN cache # {}

\* C11 (as claimed): a CreateOrder request that fails validation is answered with a 4xx
\* response whose body names the violated constraint, and a 5xx response is given only
\* when the Order Store write failed.
C11_ValidationIsClientError ==
    /\ (last.op = "CreateOrder" /\ InvalidRequest(last.req)) =>
            /\ last.http.code \in 400..499
            /\ last.http.error \in ValidationErrors
    /\ (last.op = "CreateOrder" /\ last.http.code \in 500..599) =>
            CallOuts(last, "repo.Create") \cap {"error", "duplicate"} # {}

\* C12: for every (limit, offset) ListOrders makes exactly one store query, with a limit in
\* 1..100 and an offset >= 0: a limit <= 0 becomes 10, a limit > 100 becomes 100, an
\* offset < 0 becomes 0, and every other value is passed through unchanged.
C12_ListClamps ==
    last.op = "ListOrders" =>
        /\ Len(last.calls) = 1
        /\ last.calls[1].call = "repo.List"
        /\ last.calls[1].limit \in 1..100
        /\ last.calls[1].offset >= 0
        /\ last.calls[1].limit = (IF last.req.Limit <= 0 THEN 10
                                  ELSE IF last.req.Limit > 100 THEN 100 ELSE last.req.Limit)
        /\ last.calls[1].offset = (IF last.req.Offset < 0 THEN 0 ELSE last.req.Offset)

\* C12 witness: a listing asked with limit 101 and offset -1 has returned three orders
C12_Witness ==
    /\ last.op = "ListOrders" /\ last.err = Nil
    /\ last.req.Limit = 101 /\ last.req.Offset = -1
    /\ last.calls[1].limit = 100 /\ last.calls[1].offset = 0
    /\ Len(last.order) = 3

\* C13 (as claimed): once three orders have been created, ListOrders(limit = 1, offset = 0)
\* returns exactly one order, and it is the one created last.
C13_NewestFirst ==
    (/\ last.op = "ListOrders" /\ last.err = Nil
     /\ last.req.Limit = 1 /\ last.req.Offset = 0
     /\ Cardinality({o.ID : o \in created}) = 3) =>
        /\ Len(last.order) = 1
        /\ last.order[1].ID = newest

\* C14: in both consumers a delivery whose body does not parse is nacked without
\* requeue: the handler is not called for it (no row, no notification, cache untouched),
\* the message is in the consumer's queue and hands no more, and no message that has left
\* them comes back; the handler never runs on a body that does not parse.
C14_PoisonMessageDropped ==
    /\ [][ \A c \in Consumers : ParseFailStep(c) =>
              /\ consumers'[c].outcome = "nack-drop"
              /\ consumers'[c].handler = <<>> /\ ~consumers'[c].handling
              /\ InHand(c).seq \notin Held(c)'
              /\ UNCHANGED <<metrics, summaryCache, notified>> ]_vars
    /\ [][GoneForGood]_vars
    /\ [](\A c \in Consumers :
            consumers[c].handling => UnmarshalEvent(InHand(c).body).err = Nil)

\* C14 witness: both consumers have dropped the malformed message, the analytics service
\* while an event was waiting behind it
C14_Witness ==
    /\ \A c \in Consumers : consumers[c].outcome = "nack-drop" /\ consumers[c].handler = <<>>
    /\ \E i \in DOMAIN published : "raw" \in DOMAIN published[i] /\ \A c \in Consumers : i \notin Held(c)
    /\ QueueOf("analytics") # <<>>

\* C15: when the handler returns an error for a parsed message the loop nacks it with
\* requeue: the message is not acked and not dropped but is back at the head of the queue,
\* marked redelivered, and the broker may deliver it again at once; nothing counts the
\* attempts.
C15_HandlerErrorRequeues ==
    [][ \A c \in Consumers :
          (HandleStep(c) /\ consumers'[c].handler[1].err # Nil) =>
              /\ consumers'[c].outcome = "nack-requeue"
              /\ QueueOf(c)' # <<>>
              /\ Head(QueueOf(c)').seq = InHand(c).seq
              /\ Head(QueueOf(c)').body = InHand(c).body
              /\ Head(QueueOf(c)').redelivered
              /\ CanDeliver(consumers'[c]) ]_vars

\* C15 witness: after an earlier event was handled, the analytics handler has failed on a
\* message, which is back at the head of the queue and marked redelivered
C15_Witness ==
    /\ consumers["analytics"].outcome = "nack-requeue"
    /\ consumers["analytics"].handler[1].err # Nil
    /\ Head(QueueOf("analytics")).redelivered
    /\ metrics # <<>>

\* C16: when the handler succeeds for a parsed message the loop acks it: the message is
\* in that consumer's queue and hands no more, and no message that has left them comes
\* back, so the handler is not called for it again.
C16_HandlerSuccessAcks ==
    /\ [][ \A c \in Consumers :
              (HandleStep(c) /\ consumers'[c].handler[1].err = Nil) =>
                  /\ consumers'[c].outcome = "ack"
                  /\ InHand(c).seq \notin Held(c)'
                  /\ consumers'[c].unacked = <<>> ]_vars
    /\ [][ \A c \in Consumers : Held(c)' \ Held(c) \subseteq NewlyRouted ]_vars

\* C16 witness: both consumers have acked their latest delivery and hold nothing more
C16_Witness ==
    /\ \A c \in Consumers : consumers[c].outcome = "ack" /\ Held(c) = {}
    /\ Len(metrics) = 2 /\ Len(notified) = 2

\* C17: each consumer has at most one unacknowledged delivery at any time, and while its
\* handler runs that delivery is the only one it has: the next message stays in the queue
\* until the loop has answered.
C17_OneAtATime ==
    \A c \in Consumers :
        /\ Len(consumers[c].unacked) <= 1
        /\ consumers[c].handling => Len(consumers[c].unacked) = 1

\* C17 witness: both handlers are running while further messages wait in both queues
C17_Witness ==
    \A c \in Consumers : consumers[c].handling /\ Len(QueueOf(c)) >= 1

\* C18 (as claimed): every event the producer publishes successfully is put into the
\* queue of the analytics service and into the queue of the notification worker, whether
\* the consumer is running, has stopped or has not started yet.
C18_FanOut ==
    [][ \A i \in NewlyRouted :
          "order_id" \in DOMAIN published'[i] =>
              \A c \in Consumers : i \in Seqs(QueueOf(c)') ]_vars

\* C19: the consumers are independent: a step that changes one consumer (its start, its
\* deliveries, its loop, its stop) leaves the other consumer and the other consumer's
\* queue as they are, and a running consumer that has messages in its queue or in its
\* hands can always take its next step, whatever the other consumer does or fails to do.
C19_ConsumerIndependence ==
    /\ [][ \A c, d \in Consumers :
              (c # d /\ consumers'[c] # consumers[c]) =>
                  /\ consumers'[d] = consumers[d]
                  /\ QueueOf(d)' = QueueOf(d) ]_vars
    /\ [](\A c \in Consumers : (consumers[c].running /\ Held(c) # {}) => CanStep(c))

\* C19 witness: the notification worker has handled and acked every event while the
\* analytics handler keeps failing on the first one
C19_Witness ==
    /\ consumers["analytics"].outcome = "nack-requeue"
    /\ Seqs(QueueOf("analytics")) = {1, 2} /\ metrics = <<>>
    /\ consumers["notification"].outcome = "ack"
    /\ Held("notification") = {} /\ Len(notified) = 2

\* this step is a successful run of the analytics handler
AnalyticsHandled ==
    HandleStep("analytics") /\ consumers'["analytics"].handler[1].err = Nil

\* the event the analytics handler is running on
EventInHand == UnmarshalEvent(InHand("analytics").body).event[1]

SummaryAnswered == lastSummary.phase # "done" /\ lastSummary'.phase = "done"

\* C21: a GetSummary call never returns a summary computed before a row that was in the
\* table when the call started: the summary it returns counts at least the rows that
\* successfully processed events had appended by then (no cache entry expires in between:
\* every step but ExpireSummary is within the TTL).
C21_SummaryFresh ==
    [][ SummaryAnswered /\ lastSummary'.err = Nil =>
          lastSummary'.summary[1].TotalOrders >= lastSummary'.startRows ]_vars

\* in this step a GET /analytics/summary call starts: it asks the cache and may read the table
SummaryStep == lastSummary.phase = "idle" /\ lastSummary'.phase # "idle"

\* in this step the call that computed its summary writes it to the cache and returns
SummaryCacheStep == lastSummary.phase = "computed" /\ lastSummary'.phase = "done"

\* C22: GetSummary is cache-aside.  When the cache answers with a summary, the call returns
\* that summary and neither reads the table nor writes the cache.  Otherwise it reads the
\* table: the summary is the count of all rows, the sum of their amounts and the average
\* (all zero when there are no rows); the call then asks the cache to store that summary,
\* the entry being the summary when the cache accepts it, and returns the summary.
C22_SummaryCacheAside ==
    [][ /\ SummaryStep /\ CallOuts(lastSummary', "cache.GetSummary") = {"hit"} =>
              /\ summaryCache # <<>>
              /\ lastSummary'.phase = "done" /\ lastSummary'.err = Nil
              /\ lastSummary'.summary = <<UnmarshalSummary(summaryCache[1])>>
              /\ ~Called(lastSummary', "repo.GetSummary")
              /\ summaryCache' = summaryCache
        /\ SummaryStep /\ summaryCache = <<>> =>
              CallOuts(lastSummary', "cache.GetSummary") = {"miss"}
        /\ SummaryStep /\ CallOuts(lastSummary', "cache.GetSummary") = {"miss"}
                       /\ lastSummary'.err = Nil =>
              /\ CallOuts(lastSummary', "repo.GetSummary") = {"ok"}
              /\ lastSummary'.summary[1].TotalOrders = Len(metrics)
              /\ lastSummary'.summary[1].TotalRevenue = SumAmounts(metrics)
              /\ lastSummary'.summary[1].AverageOrderSize =
                    IF Len(metrics) = 0 THEN 0 ELSE SumAmounts(metrics) \div Len(metrics)
              /\ lastSummary'.phase = "computed"
        /\ SummaryCacheStep =>
              /\ Called(lastSummary', "cache.SetSummary")
              /\ "ok" \in CallOuts(lastSummary', "cache.SetSummary") =>
                    summaryCache' = <<MarshalSummary(lastSummary.summary[1])>>
              /\ lastSummary'.summary = lastSummary.summary
              /\ lastSummary'.err = Nil ]_vars

\* C22 witness: a call has been answered from the cache with the summary an earlier call
\* computed over two rows and cached
C22_Witness ==
    /\ lastSummary.phase = "done"
    /\ lastSummary.calls = <<Call("cache.GetSummary", "hit")>>
    /\ lastSummary.summary[1].TotalOrders = 2
    /\ lastSummary.summary[1].TotalRevenue = 149980
    /\ lastSummary.summary[1].AverageOrderSize = 74990
    /\ summaryCache = <<MarshalSummary(lastSummary.summary[1])>>

\* C23: when no event was processed since the call before started (the table has the
\* number of rows it had then), GetSummary returns what the call before returned.
C23_SummaryIdempotent ==
    [][ SummaryAnswered /\ lastSummary'.err = Nil /\ lastSummary'.prev # <<>> =>
          lastSummary'.summary = lastSummary'.prev ]_vars

\* in this step c's handler returns, whether or not the loop's answer reaches the broker
HandlerReturned(c) ==
    consumers[c].handling /\ ~consumers'[c].handling /\ consumers'[c].handler # <<>>

\* the rows of order_metrics that carry an order id
RowsFor(rows, id) == {i \in DOMAIN rows : rows[i].order_id = id}

\* C25 (as claimed): when the analytics handler succeeds on a delivery on which it has
\* failed once before, the table holds two rows for the event's order id.
C25_RetryLeavesTwoRows ==
    [][ /\ HandlerReturned("analytics")
        /\ consumers'["analytics"].handler[1].err = Nil
        /\ InHand("analytics").failures = 1
        => Cardinality(RowsFor(metrics', EventInHand.OrderID)) = 2 ]_vars

\* C25 (amended): a run of the analytics handler that fails leaves the table as it was,
\* and the run that succeeds on a delivery on which the handler has failed once before
\* appends one row: the failure and the retry together leave exactly one more row for the
\* event's order id.
C25_RetryLeavesOneRow ==
    [][ /\ HandlerReturned("analytics") /\ consumers'["analytics"].handler[1].err # Nil =>
              metrics' = metrics
        /\ /\ HandlerReturned("analytics")
           /\ consumers'["analytics"].handler[1].err = Nil
           /\ InHand("analytics").failures = 1
           => /\ Cardinality(RowsFor(metrics', EventInHand.OrderID)) =
                   Cardinality(RowsFor(metrics, EventInHand.OrderID)) + 1
              /\ Len(metrics') = Len(metrics) + 1 ]_vars

\* C25 witness: the handler has failed once on the first event and succeeded on its
\* redelivery; the table holds one row, which is the event's
C25_Witness ==
    /\ consumers["analytics"].outcome = "ack"
    /\ consumers["analytics"].handler[1].err = Nil
    /\ consumers["analytics"].handler[1].failedBefore = 1
    /\ Len(metrics) = 1
    /\ \E i \in DOMAIN published : published[i].order_id = metrics[1].order_id

\* the event c's handler is running on
HandledEvent(c) == UnmarshalEvent(InHand(c).body).event[1]

\* the notifications sent for an order id
NotifiedFor(sent, id) == {i \in DOMAIN sent : sent[i].OrderID = id}

\* C26: every successful run of the analytics handler appends a row for the event's order
\* id, and every run of the worker's handler records a notification for it, whether or not
\* that order id was handled before: a delivery repeated after a successful run adds a
\* second row and a second notification.
C26_NoDeduplication ==
    [][ /\ HandlerReturned("analytics") /\ consumers'["analytics"].handler[1].err = Nil =>
              /\ metrics' = Append(metrics, metrics'[Len(metrics')])
              /\ Cardinality(RowsFor(metrics', HandledEvent("analytics").OrderID)) =
                   Cardinality(RowsFor(metrics, HandledEvent("analytics").OrderID)) + 1
        /\ HandlerReturned("notification") =>
              /\ consumers'["notification"].handler[1].err = Nil
              /\ notified' = Append(notified, notified'[Len(notified')])
              /\ Cardinality(NotifiedFor(notified', HandledEvent("notification").OrderID)) =
                   Cardinality(NotifiedFor(notified, HandledEvent("notification").OrderID)) + 1
      ]_vars

\* C26 witness: an event was delivered again to each consumer after its handler had
\* succeeded and the ack was lost: the table holds two rows and the log two notifications
\* for the same order id
C26_Witness ==
    /\ consumers["analytics"].outcome = "ack"
    /\ consumers["notification"].outcome = "ack"
    /\ \E id \in UUIDs : /\ Cardinality(RowsFor(metrics, id)) = 2
                         /\ Cardinality(NotifiedFor(notified, id)) = 2

\* in this step c's process exits after the shutdown signal
ExitStep(c) ==
    consumers[c].running /\ ~consumers'[c].running /\ consumers'[c].outcome = "exit"

\* C27: when a consumer process exits after the shutdown signal and closes its
\* connection, the handler that was running when the signal arrived has returned and its
\* delivery has been acked or nacked.
C27_CooperativeShutdown ==
    [][ \A c \in Consumers : ExitStep(c) => ~consumers[c].inFlight ]_vars

\* in this step c's process ends: it exits after the signal, stops, or loses its connection
EndStep(c) == consumers[c].running /\ ~consumers'[c].running

\* C28: a message leaves what the broker holds for a consumer only in a step in which
\* that consumer's loop acks it or nacks it without requeue.  When the consumer's process
\* ends, the broker holds the same messages as before, and the deliveries the consumer had
\* not answered are at the head of its queue, marked redelivered, ready for the consumer
\* that starts next.
C28_UnackedStaysQueued ==
    [][ \A c \in Consumers :
          /\ \A seq \in Held(c) \ Held(c)' :
                /\ consumers[c].running /\ consumers'[c].running
                /\ consumers[c].unacked # <<>> /\ InHand(c).seq = seq
                /\ consumers'[c].outcome \in {"ack", "nack-drop"}
          /\ EndStep(c) =>
                /\ Held(c)' = Held(c)
                /\ consumers'[c].unacked = <<>>
                /\ \A i \in DOMAIN consumers[c].unacked :
                      QueueOf(c)'[i] = [consumers[c].unacked[i] EXCEPT !.redelivered = TRUE]
                /\ SubSeq(QueueOf(c)', Len(consumers[c].unacked) + 1, Len(QueueOf(c)')) =
                      QueueOf(c) ]_vars

\* C28 witness: the analytics consumer is running its handler on a delivery that no
\* handler has failed on and that is marked redelivered: the consumer before it ended
\* with this delivery unanswered
C28_Witness ==
    /\ consumers["analytics"].running /\ consumers["analytics"].handling
    /\ InHand("analytics").redelivered
    /\ InHand("analytics").failures = 0

\* the order ids of the order events handed to the exchange
PublishedOrderIDs ==
    {published[i].order_id : i \in {j \in DOMAIN published : "order_id" \in DOMAIN published[j]}}

\* the messages a consumer's queue or a consumer holds
HeldMessages(c) ==
    {QueueOf(c)[i] : i \in DOMAIN QueueOf(c)}
      \cup {consumers[c].unacked[i] : i \in DOMAIN consumers[c].unacked}

\* C29: the publish goroutine of a created order runs once: whatever the outcome of its
\* one publish call, the run ends the goroutine, and no goroutine is started for an order
\* that has none.  An order whose goroutine has ended without its event on the exchange
\* never gets its event there, and the consumers receive, store and notify only events
\* that are on the exchange.
C29_PublishAtMostOnce ==
    /\ [](\A order \in pending : ENABLED (Publish(order) /\ pending' = pending \ {order}))
    /\ [][ /\ pending' \subseteq pending
           /\ \A order \in created :
                 order \notin pending /\ order.ID \notin PublishedOrderIDs =>
                     order.ID \notin PublishedOrderIDs' ]_vars
    /\ [](\A c \in Consumers : \A msg \in HeldMessages(c) :
              msg.seq \in DOMAIN published /\ msg.body = published[msg.seq])
    /\ [](/\ \A i \in DOMAIN metrics : metrics[i].order_id \in PublishedOrderIDs
          /\ \A i \in DOMAIN notified : notified[i].OrderID \in PublishedOrderIDs)

\* C29 witness: the publish of the second order failed because the connection was down;
\* its goroutine has ended, both consumers have handled the first order's event and wait
\* on empty queues, and the second order's event is nowhere
C29_Witness ==
    /\ pending = {} /\ ~connOpen
    /\ PublishedOrderIDs = {"u1"}
    /\ \A c \in Consumers : consumers[c].running /\ HeldMessages(c) = {}
    /\ Len(metrics) = 1 /\ Len(notified) = 1
    /\ \E order \in created : order.ID = "u2"

\* C30: whenever the producer's connection is down, the producer gets it open again, and
\* a publish goroutine that runs while the connection is open puts its event on the
\* exchange.
C30_ReconnectOnDrop ==
    /\ ~connOpen ~> connOpen
    /\ [][ \A order \in pending \ pending' : connOpen => order.ID \in PublishedOrderIDs' ]_vars

\* nothing is on its way: every publish goroutine has run, both consumers are running,
\* their queues are empty and they hold no delivery
Quiescent ==
    /\ pending = {}
    /\ \A c \in Consumers : consumers[c].running /\ HeldMessages(c) = {}

RECURSIVE SumOrderAmounts(_)
\* the sum of the total amounts of a set of orders
SumOrderAmounts(orders) ==
    IF orders = {} THEN 0
    ELSE LET o == CHOOSE x \in orders : TRUE
         IN  o.TotalAmount + SumOrderAmounts(orders \ {o})

\* C24: once nothing is on its way any more, every order that was created has exactly
\* one metric row and exactly one notification, and the summary computed from the table
\* counts one order per created order and the sum of the created orders' amounts.
C24_EndToEnd ==
    Quiescent =>
        /\ \A order \in created :
              /\ Cardinality(RowsFor(metrics, order.ID)) = 1
              /\ Cardinality(NotifiedFor(notified, order.ID)) = 1
        /\ RepoGetSummary(metrics, clock, FALSE).summary[1].TotalOrders = Cardinality(created)
        /\ RepoGetSummary(metrics, clock, FALSE).summary[1].TotalRevenue =
              SumOrderAmounts(created)

\* this step is a GET /health call on the order service
HealthStep == last = Idle /\ last'.op = "HealthCheck"

\* C31: GET /health runs the database, cache and message-queue checks, all three whatever
\* the others return; each key reports its own check ("healthy" exactly when that check
\* passed, the message-queue check passing exactly when the connection is open); the
\* answer is 503 "degraded" exactly when at least one check failed and 200 "healthy"
\* otherwise; and the call changes nothing.
C31_HealthChecksIndependent ==
    [][ HealthStep =>
          /\ Len(last'.calls) = 3
          /\ last'.calls[1].call = "DBHealthFunc"
          /\ last'.calls[2].call = "CacheHealthFunc"
          /\ last'.calls[3].call = "MQHealthFunc"
          /\ last'.http.checks.database = "healthy" <=> last'.calls[1].out = "ok"
          /\ last'.http.checks.cache = "healthy" <=> last'.calls[2].out = "ok"
          /\ last'.http.checks.mq = "healthy" <=> last'.calls[3].out = "ok"
          /\ last'.calls[3].out = "ok" <=> connOpen
          /\ IF \E i \in 1..3 : last'.calls[i].out # "ok"
             THEN last'.http.status = "degraded" /\ last'.http.code = 503
             ELSE last'.http.status = "healthy" /\ last'.http.code = 200
          /\ UNCHANGED <<store, cache, clock, pending, published, connOpen, created>> ]_vars

\* C31 witness: the database ping failed, the cache ping passed and the connection to the
\* broker is closed: the answer is 503 "degraded" and each key tells its own check
C31_Witness ==
    /\ last.op = "HealthCheck"
    /\ last.http.code = 503 /\ last.http.status = "degraded"
    /\ last.http.checks.database # "healthy"
    /\ last.http.checks.cache = "healthy"
    /\ last.http.checks.mq = "unhealthy: connection is closed"

\* in this step the analytics handler returns an error
AnalyticsFailed ==
    HandlerReturned("analytics") /\ consumers'["analytics"].handler[1].err # Nil

\* C32: the rows of order_metrics are append-only: every step of the analytics service
\* leaves the rows it found in place and unchanged (so their number never decreases), a
\* handler run that fails adds no row, a successful one appends one, and GetSummary (its
\* read and its cache write) leaves the table as it is.
C32_RowsAppendOnly ==
    [][ /\ Len(metrics') >= Len(metrics)
        /\ SubSeq(metrics', 1, Len(metrics)) = metrics
        /\ AnalyticsFailed => metrics' = metrics
        /\ AnalyticsHandled => Len(metrics') = Len(metrics) + 1
        /\ SummaryStep \/ SummaryCacheStep => metrics' = metrics ]_vars

\* C32 witness: a row was stored and a summary over it answered, and the handler then
\* failed on the next event: the table still holds that one row
C32_Witness ==
    /\ Len(metrics) = 1
    /\ lastSummary.startRows = 1 /\ lastSummary.summary # <<>>
    /\ consumers["analytics"].handler # <<>>
    /\ consumers["analytics"].handler[1].err # Nil
    /\ consumers["analytics"].handler[1].failedBefore = 0
    /\ UnmarshalEvent(QueueOf("analytics")[1].body).event[1].OrderID # metrics[1].order_id

\* this step is a GET /orders call
ListStep == last = Idle /\ last'.op = "ListOrders"

\* C33: ListOrders goes past the cache: the only call it makes is the store query, and it
\* leaves the cache, the store, the orders waiting to be published and the published
\* events as they were, whether the query succeeds or fails.
C33_ListBypassesCache ==
    [][ ListStep =>
          /\ \A i \in DOMAIN last'.calls : last'.calls[i].call = "repo.List"
          /\ CallOuts(last', "cache.Get") = {} /\ CallOuts(last', "cache.Set") = {}
          /\ UNCHANGED <<cache, store, pending, published, queues>> ]_vars

\* C33 witness: a listing returned two stored orders of which the cache holds only one
C33_Witness ==
    /\ last.op = "ListOrders" /\ last.err = Nil
    /\ Len(last.order) = 2
    /\ Cardinality(DOMAIN store) = 2
    /\ Cardinality(DOMAIN cache) = 1

\* in this step c's loop takes a delivery whose body parses and calls the handler on it
ParsedStep(c) == ~consumers[c].handling /\ consumers'[c].handling

\* in this step the broker sends c a message
DeliverStep(c) ==
    consumers[c].running /\ Len(consumers'[c].unacked) > Len(consumers[c].unacked)

\* C34: each delivery goes one of three ways and ends in exactly one answer before the
\* consumer is sent its next message: a body that does not parse is nacked without
\* requeue and is gone; a body that parses reaches the handler, and the delivery is
\* acked and gone when the handler succeeds, nacked with requeue and back in the queue
\* when it fails.  A message is sent only to a consumer that holds no unanswered
\* delivery, a running loop gives a delivery up only with one of these answers, and a
\* running loop that holds a delivery can always take its next step on it.
C34_PerMessageStateMachine ==
    /\ [][ \A c \in Consumers :
             /\ DeliverStep(c) =>
                   /\ consumers[c].unacked = <<>> /\ ~consumers[c].handling
                   /\ consumers'[c].outcome = "none"
             /\ ParsedStep(c) =>
                   /\ UnmarshalEvent(InHand(c).body).err = Nil
                   /\ consumers'[c].unacked = consumers[c].unacked
                   /\ consumers'[c].outcome = "none"
             /\ ParseFailStep(c) =>
                   /\ consumers'[c].outcome = "nack-drop"
                   /\ InHand(c).seq \notin Held(c)'
             /\ HandleStep(c) /\ consumers'[c].handler[1].err = Nil =>
                   /\ consumers'[c].outcome = "ack"
                   /\ InHand(c).seq \notin Held(c)'
             /\ HandleStep(c) /\ consumers'[c].handler[1].err # Nil =>
                   /\ consumers'[c].outcome = "nack-requeue"
                   /\ InHand(c).seq \in Seqs(QueueOf(c)')
                   /\ InHand(c).seq \notin Seqs(consumers'[c].unacked)
             /\ HandleStep(c) => UnmarshalEvent(InHand(c).body).err = Nil
             /\ ( /\ consumers[c].running /\ consumers'[c].running
                  /\ consumers[c].unacked # <<>>
                  /\ consumers'[c].unacked # consumers[c].unacked )
                 => /\ ParseFailStep(c) \/ HandleStep(c)
                    /\ consumers'[c].unacked = <<>>
                    /\ consumers'[c].outcome \in {"ack", "nack-drop", "nack-requeue"} ]_vars
    /\ [](\A c \in Consumers :
             /\ Len(consumers[c].unacked) <= 1
             /\ consumers[c].handling => consumers[c].unacked # <<>>
             /\ consumers[c].running /\ consumers[c].unacked # <<>> => CanStep(c))

\* C34 witness: the aggregate consumer has just nacked a delivery with requeue, after a
\* failed handler run on an event it stored a row for before, while the notification
\* consumer has just dropped a body that does not parse, after acking an event
C34_Witness ==
    /\ consumers["analytics"].outcome = "nack-requeue"
    /\ consumers["analytics"].running /\ metrics # <<>>
    /\ consumers["notification"].outcome = "nack-drop"
    /\ consumers["notification"].running /\ notified # <<>>

\* no message waiting in c's queue has been requeued
NoneRequeued(c) == \A i \in DOMAIN QueueOf(c) : ~QueueOf(c)[i].redelivered

\* C35: a consumer handles its messages in the order in which they entered its queue, as
\* long as none is requeued.  Messages enter a queue in the order of publication (seq);
\* while no requeued message waits in the queue, the queue keeps that order, the message
\* the consumer is sent is the oldest one the broker holds for it, and that is the message
\* its handler runs on and the loop answers, one at a time.
C35_FifoPerQueue ==
    /\ [](\A c \in Consumers : \A i \in DOMAIN QueueOf(c), j \in DOMAIN QueueOf(c) :
             (i < j /\ ~QueueOf(c)[i].redelivered /\ ~QueueOf(c)[j].redelivered)
                 => QueueOf(c)[i].seq < QueueOf(c)[j].seq)
    /\ [][ \A c \in Consumers :
             /\ (DeliverStep(c) /\ NoneRequeued(c)) =>
                   /\ consumers'[c].unacked = <<Head(QueueOf(c))>>
                   /\ \A s \in Held(c) : consumers'[c].unacked[1].seq <= s
                   /\ \A s \in Held(c)' : consumers'[c].unacked[1].seq <= s
             /\ ParsedStep(c) => consumers'[c].unacked = consumers[c].unacked
             /\ (HandleStep(c) \/ ParseFailStep(c)) =>
                   /\ consumers[c].unacked = <<InHand(c)>>
                   /\ (NoneRequeued(c) /\ ~InHand(c).redelivered) =>
                         \A s \in Held(c) : InHand(c).seq <= s ]_vars

\* C35 witness: two events waited in the aggregate consumer's queue; the first was
\* handled and acked, and the consumer now holds the second, delivered for the first time
C35_Witness ==
    /\ Len(published) = 2
    /\ Len(metrics) = 1
    /\ UnmarshalEvent(published[1]).err = Nil
    /\ metrics[1].order_id = UnmarshalEvent(published[1]).event[1].OrderID
    /\ consumers["analytics"].handling
    /\ InHand("analytics").seq = 2 /\ ~InHand("analytics").redelivered
    /\ consumers["notification"].unacked = <<>>
    /\ Seqs(QueueOf("notification")) = {1, 2}

\* C36: with the cache out of reach (its Get fails, and so does its Set) a GetOrder(id) for
\* an order the store holds and returns is answered 200 with the stored order: the call
\* asks the cache, reads the store, tries to fill the cache and ignores that this fails;
\* cache and store stay as they were, and the same call made again in the same
\* circumstances reads the store again and returns the same order.
C36_ReadsSurviveCacheOutage ==
    [][ \A id \in LookupIDs :
          (GetStep(id) /\ id \in DOMAIN store
               /\ CallOuts(last', "cache.Get") = {"error"}
               /\ "ok" \notin CallOuts(last', "cache.Set")
               /\ "error" \notin CallOuts(last', "repo.GetByID")) =>
             /\ last'.err = Nil
             /\ last'.http.code = 200
             /\ last'.order = <<ScanOrder(store[id])>>
             /\ last'.calls = <<Call("cache.Get", "error"), Call("repo.GetByID", "ok"),
                                Call("cache.Set", "error")>>
             /\ cache' = cache /\ store' = store
             /\ LET again == ServiceGetOrderByID(store', cache', id, TRUE, FALSE, TRUE)
                IN  /\ again.err = Nil
                    /\ again.order = last'.order
                    /\ CallOuts(again, "repo.GetByID") = {"ok"} ]_vars

\* C36 witness: the cache holds the order but cannot be reached; GetOrder has returned the
\* stored order after reading the store
C36_Witness ==
    /\ last.op = "GetOrder" /\ last.err = Nil /\ last.http.code = 200
    /\ last.id \in DOMAIN store
    /\ OrderKey(last.id) \in DOMAIN cache
    /\ last.calls = <<Call("cache.Get", "error"), Call("repo.GetByID", "ok"),
                      Call("cache.Set", "error")>>
    /\ last.order = <<ScanOrder(store[last.id])>>

\* the order the store holds under the id an event carries
StoredOrderOf(body) == ScanOrder(store[body.order_id])

\* C37 (as claimed): every published event is of type OrderCreated and belongs to an order
\* whose store write has succeeded; no two published events carry the same order id; and
\* the event's order id, customer, product, quantity, amount, status and creation time
\* are those of the stored order.
C37_EventMatchesStoredOrder ==
    /\ \A i \in DOMAIN published :
          /\ published[i].event_type = "OrderCreated"
          /\ published[i].order_id \in DOMAIN store
          /\ published[i].order_id = StoredOrderOf(published[i]).ID
          /\ published[i].customer_id = StoredOrderOf(published[i]).CustomerID
          /\ published[i].product_id = StoredOrderOf(published[i]).ProductID
          /\ published[i].quantity = StoredOrderOf(published[i]).Quantity
          /\ published[i].total_amount = StoredOrderOf(published[i]).TotalAmount
          /\ published[i].status = StoredOrderOf(published[i]).Status
          /\ published[i].created_at = StoredOrderOf(published[i]).CreatedAt
    /\ \A i \in DOMAIN published, j \in DOMAIN published :
          published[i].order_id = published[j].order_id => i = j

\* the calls the analytics handler made in the run that ends with this step
HandlerCalls == consumers'["analytics"].handler[1].calls

\* C38: in the analytics handler a failed save of the metric ends the run with an error
\* before the summary cache is touched: no row is added, the cache is as it was and the
\* delivery is nacked with requeue.  A failed invalidation of the summary cache after a
\* successful save is absorbed: the handler returns no error, the delivery is acked and
\* gone, the row is in the table and the cache is as it was.  The handler fails in no
\* other way.
C38_SaveFatalInvalidationAbsorbed ==
    [][ HandleStep("analytics") =>
          /\ Call("repo.SaveOrderMetric", "error") \in {HandlerCalls[i] : i \in DOMAIN HandlerCalls} =>
                /\ consumers'["analytics"].handler[1].err # Nil
                /\ HandlerCalls = <<Call("repo.SaveOrderMetric", "error")>>
                /\ metrics' = metrics
                /\ summaryCache' = summaryCache
                /\ consumers'["analytics"].outcome = "nack-requeue"
                /\ Head(QueueOf("analytics")').seq = InHand("analytics").seq
          /\ Call("cache.InvalidateSummary", "error") \in {HandlerCalls[i] : i \in DOMAIN HandlerCalls} =>
                /\ consumers'["analytics"].handler[1].err = Nil
                /\ HandlerCalls = <<Call("repo.SaveOrderMetric", "ok"),
                                    Call("cache.InvalidateSummary", "error")>>
                /\ metrics' = Append(metrics, metrics'[Len(metrics')])
                /\ metrics'[Len(metrics')].order_id = EventInHand.OrderID
                /\ summaryCache' = summaryCache
                /\ consumers'["analytics"].outcome = "ack"
                /\ InHand("analytics").seq \notin Held("analytics")'
          /\ consumers'["analytics"].handler[1].err # Nil =>
                HandlerCalls = <<Call("repo.SaveOrderMetric", "error")>> ]_vars

\* C38 witness: the save failed on a delivery, which came back; on the second run the save
\* succeeded and the invalidation failed: the delivery is acked, the row is there and
\* the cached summary is still in place
C38_Witness ==
    /\ consumers["analytics"].outcome = "ack"
    /\ consumers["analytics"].handler[1].err = Nil
    /\ consumers["analytics"].handler[1].failedBefore = 1
    /\ consumers["analytics"].handler[1].calls[2] = Call("cache.InvalidateSummary", "error")
    /\ summaryCache # <<>>
    /\ Len(metrics) = 2

\* C39 (as claimed): in every reachable state each cache entry is keyed by the id of an
\* order that is in the store, and the order it decodes to equals that stored order.
C39_CacheConsistent ==
    \A key \in DOMAIN cache :
        \E id \in DOMAIN store :
            /\ key = OrderKey(id)
            /\ UnmarshalOrder(cache[key]) = ScanOrder(store[id])

\* C40: the notification handler never returns an error: every run of it on a parsed
\* message adds exactly one notification, for that message's order, and the delivery is
\* acked and gone; the notification consumer never nacks with requeue, none of its
\* messages has a failed run behind it, and the only nack it sends is the one without
\* requeue for a body that does not parse.
C40_NotificationNeverFails ==
    /\ [][ /\ HandleStep("notification") =>
                /\ UnmarshalEvent(InHand("notification").body).err = Nil
                /\ consumers'["notification"].handler[1].err = Nil
                /\ notified' = Append(notified,
                                      [OrderID |-> HandledEvent("notification").OrderID,
                                       CustomerID |-> HandledEvent("notification").CustomerID])
                /\ consumers'["notification"].outcome = "ack"
                /\ InHand("notification").seq \notin Held("notification")'
           /\ ( /\ consumers'["notification"].outcome \in {"nack-drop", "nack-requeue"}
                /\ consumers'["notification"] # consumers["notification"] ) =>
                /\ ParseFailStep("notification")
                /\ consumers'["notification"].outcome = "nack-drop"
                /\ notified' = notified
           /\ notified' # notified => HandleStep("notification") ]_vars
    /\ [](/\ consumers["notification"].outcome # "nack-requeue"
          /\ \A i \in DOMAIN QueueOf("notification") :
                QueueOf("notification")[i].failures = 0)

\* C40 witness: the notification consumer has acked two events, one notification each,
\* and has since dropped a body that does not parse
C40_Witness ==
    /\ consumers["notification"].running
    /\ consumers["notification"].outcome = "nack-drop"
    /\ Len(notified) = 2
    /\ notified[1].OrderID # notified[2].OrderID
    /\ Held("notification") = {}

=============================================================================
